---- MODULE Spec2Model ----
(***************************************************************************)
(* Model of the request-dispatch pipeline of whatsapp-bot.                 *)
(*                                                                         *)
(*   CacheSpec : the LRU+TTL response cache   (package cache)              *)
(*   PoolSpec  : the bounded worker pool      (package queue, worker.go)   *)
(*                                                                         *)
(* Every Cache method holds c.mutex for its whole body, so each method is  *)
(* one atomic action.  Time is a logical clock `now` advanced by Tick;     *)
(* time.Now() and time.Since() read it.                                    *)
(***************************************************************************)
EXTENDS Integers, Sequences, FiniteSets, TLC

(***************************************************************************)
(* Bounds of the model.                                                    *)
(***************************************************************************)
NumKeys == 3
NumValues == 2
MaxCapacity == 2
MaxTTL == 1
MaxTime == 2
MaxCount == 2
NumTasks == 3
MaxPool == 2
MaxBatch == 2
ChanCap == 2
MaxSample == 31
MaxUpdates == 3
NumGoroutines == 2
NumHandlers == 2
NumArrivals == 3
NumTurns == 2
NumSenders == 2
NumPrompts == 2
MaxEarlier == 5
MaxBots == 3
MaxHandled == 2
NumBatches == 2

Keys == 1..NumKeys
Values == 1..NumValues
\* The ttl passed to Set; zero is a value callers may pass.
TTLs == 0..MaxTTL
\* A cache of capacity C holds at most C+1 list elements (inside Set).
ElemIds == 1..(MaxCapacity + 1)
\* The tasks handed to Submit, one call each.
Tasks == 1..NumTasks

\* The messages that arrive; each can end up as a batch, hence a task, of its own.
Msgs == 1..NumTasks

\* types.MessageType: the types the messages of the model are drawn from.
MessageTypes == {"text", "image"}

\* The nil pointer / the absent map entry / the nil interface value.
Nil == 0

\* time.Second: a time.Duration counts units of which Second make one second.
Second == 1

MIN_TIMEOUT == 10 * Second
INITIAL_TIMEOUT == 15 * Second
MAX_TIMEOUT == 60 * Second
MAX_RETRIES == 2

\* The latencies the backend answers with.
Samples == 1..MaxSample

\* The goroutines that call updateResponseTime, and the goroutines that each
\* handle one text message.
Goroutines == 1..NumGoroutines
Handlers == 1..NumHandlers

\* NewRateLimiter(0.5, 1): LimitNum/LimitDen tokens a second, a bucket of Burst.
LimitNum == 1
LimitDen == 2
Burst == 1

MAX_HISTORY == 10
DEFAULT_TIMEOUT == 300 * Second
\* cache.NewCache(1000), and the ttl cacheResponse passes to Set.
BotCacheCapacity == 1000
CacheTTL == 24 * 3600 * Second

\* The events.Message the client delivers, in the order it delivers them;
\* the first NumTurns of them are the text messages whose turns are followed.
Arrivals == 1..NumArrivals
Turns == 1..NumTurns
\* The senders; a private chat's JID is its sender's.
Senders == 1..NumSenders
\* The texts of the messages: keys of the response cache.
Prompts == 1..NumPrompts

VARIABLES
    capacity,   \* Cache.capacity
    items,      \* Cache.items     : key -> *list.Element (Nil: no map entry)
    evictList,  \* Cache.evictList : the elements, front (most recent) first
    elems,      \* the heap: element -> the *CacheEntry it holds
    hits,       \* CacheMetrics.hits
    misses,     \* CacheMetrics.misses
    size,       \* CacheMetrics.size (gauge)
    now,        \* the clock
    ret,        \* the last call on the cache and what it returned
    recency,    \* history: stored keys, most recently touched first
    poolSize,   \* cap(WorkerPool.workers)
    workers,    \* len(WorkerPool.workers): the tokens in the channel's buffer
    closed,     \* WorkerPool.workers has been closed
    wg,         \* the counter of WorkerPool.wg
    pc,         \* per task: where its Submit call, then its goroutine, stands
    panicking,  \* the tasks whose function panicked
    crashed,    \* an unrecovered panic has ended the process
    waiter,     \* where the caller of Wait stands
    awaited,    \* history: the tasks whose Submit had begun when Wait was called
    late,       \* history: the tasks whose Submit was called after Stop
    batchSize,  \* Queue.batchSize
    messages,   \* Queue.messages: the buffer of the intake channel, oldest first
    batches,    \* Queue.batches: message type -> the open *MessageBatch
    proc,       \* where the batchProcessor goroutine stands
    submitted,  \* the batches captured by the closures given to Submit: task -> batch
    hpc,        \* per message: where the goroutine that enqueues it stands
    queueLength,        \* QueueMetrics.queueLength (gauge)
    messagesProcessed,  \* QueueMetrics.messagesProcessed (counter)
    received,   \* history: the messages in the order the processor received them
    tick,       \* history: the open batches and the tasks submitted at the latest tick
    averageResponseTime,  \* TimeoutManager.averageResponseTime
    tmMutex,    \* TimeoutManager.mutex: the goroutine that holds it for writing
    upc,        \* per goroutine: where its call of updateResponseTime stands
    recorded,   \* history: how many samples updateResponseTime has written
    got,        \* the last call of getOptimalTimeout and what it returned
    rl,         \* per handler: where its retry loop stands
    visitors,   \* RateLimiter.visitors: sender -> its *rate.Limiter
    conversations,  \* Bot.conversations: chat -> its *Conversation
    responseCache,  \* Bot.responseCache: chat -> the latest response
    th,         \* per message: where handleMessage and handleTextMessage stand
    reqs,       \* per message: the request goroutines makeAIRequest started
    bots,       \* AccountManager.bots: the number n of the ID "bot_n" -> the *Bot
    instances,  \* the bots NewBot has made, by address: the fields of each Bot
    heap,       \* the objects the fields of the bots point to, by address
    turns,      \* per bot made: the handler of a text message running on it
    locks,      \* bot.go: each mutex of the bot -> the goroutines holding it
    pb,         \* bot.go, per message: where its handler and its processBatch stand
    gor,        \* bot.go, per message: the request goroutines makeAIRequest started
    hist,       \* bot.go: the chat's conversation (made: it is in Bot.conversations)
    bcache      \* bot.go: Bot.cache, prompt -> *CacheEntry

cacheVars == <<capacity, items, evictList, elems, hits, misses, size, now, ret, recency>>

poolVars == <<poolSize, workers, closed, wg, pc, panicking, crashed, waiter, awaited, late>>

queueVars == <<batchSize, messages, batches, proc, submitted, hpc, queueLength,
               messagesProcessed, received, tick>>

timeoutVars == <<averageResponseTime, tmMutex, upc, recorded, got, rl>>

chatVars == <<visitors, conversations, responseCache, th, reqs>>

managerVars == <<bots, instances, heap, turns>>

batchVars == <<locks, pb, gor, hist, bcache>>

vars == <<cacheVars, poolVars, queueVars, timeoutVars, chatVars, managerVars, batchVars>>

(***************************************************************************)
(* container/list                                                          *)
(***************************************************************************)
Range(s) == {s[i] : i \in 1..Len(s)}

ListRemove(l, e) == SelectSeq(l, LAMBDA x : x # e)

PushFront(l, e) == <<e>> \o l

\* MoveToFront is a no-op when e is not an element of l.
MoveToFront(l, e) == IF e \in Range(l) THEN <<e>> \o ListRemove(l, e) ELSE l

Back(l) == IF Len(l) = 0 THEN Nil ELSE l[Len(l)]

(***************************************************************************)
(* CacheEntry and the cache's data as one record, so that the helpers      *)
(* below are functions of it as the methods are of *Cache.                 *)
(***************************************************************************)
NoEntry == [Key |-> Nil, Value |-> Nil, Timestamp |-> 0, TTL |-> 0, UseCount |-> 0]

CacheEntry(k, v, ts, ttl) ==
    [Key |-> k, Value |-> v, Timestamp |-> ts, TTL |-> ttl, UseCount |-> 0]

Cur == [items |-> items, evictList |-> evictList, elems |-> elems,
        hits |-> hits, misses |-> misses, size |-> size]

\* The elements of a set of addresses, in ascending order.
RECURSIVE Ascending(_)
Ascending(S) ==
    IF S = {} THEN <<>>
    ELSE LET m == CHOOSE x \in S : \A y \in S : x <= y
         IN <<m>> \o Ascending(S \ {m})

IndexOf(s, e) == CHOOSE i \in 1..Len(s) : s[i] = e

\* Addresses carry no meaning beyond identity: elements that neither the map
\* nor the list references are garbage, and the live ones are renamed so that
\* the element at position i of the list has address i (elements only the map
\* references follow).  The map and the list stay two separate structures.
Collect(c) ==
    LET dangling == {c.items[k] : k \in Keys} \ (Range(c.evictList) \cup {Nil})
        live == c.evictList \o Ascending(dangling)
    IN [c EXCEPT
          !.evictList = [i \in 1..Len(c.evictList) |-> i],
          !.items = [k \in Keys |->
                        IF c.items[k] = Nil THEN Nil ELSE IndexOf(live, c.items[k])],
          !.elems = [e \in ElemIds |->
                        IF e <= Len(live) THEN c.elems[live[e]] ELSE NoEntry]]

\* A fresh element: any address not in use.
NewElem(c) ==
    CHOOSE e \in ElemIds :
        /\ e \notin Range(c.evictList)
        /\ \A k \in Keys : c.items[k] # e
        /\ \A f \in ElemIds :
              (f \notin Range(c.evictList) /\ \A k \in Keys : c.items[k] # f) => e <= f


\* The expiry test with the boundary moved: an age equal to the ttl expires.
GetExpiredAtTtl(entry, t) == entry.TTL > 0 /\ t - entry.Timestamp >= entry.TTL

\* The expiry test without the guard on the ttl's sign.
GetExpiredAnyTtl(entry, t) == t - entry.Timestamp > entry.TTL

\* Get's expiry test.
GetExpired(entry, t) == entry.TTL > 0 /\ t - entry.Timestamp > entry.TTL


\* The sweep's test with the boundary moved.
SweepExpiredAtTtl(entry, t) == entry.TTL > 0 /\ t - entry.Timestamp >= entry.TTL

\* cleanupExpired's expiry test.
SweepExpired(entry, t) == entry.TTL > 0 /\ t - entry.Timestamp > entry.TTL

\* evictElement that leaves the entry's key in the map.
evictElementKeepsKey(c, e) ==
    [c EXCEPT !.evictList = ListRemove(@, e),
              !.size = @ - 1]

evictElement(c, e) ==
    [c EXCEPT !.evictList = ListRemove(@, e),
              !.items = [k \in Keys |-> IF k = c.elems[e].Key THEN Nil ELSE @[k]],
              !.size = @ - 1]


\* evictLRU that evicts nothing.
evictLRUSkipped(c) == c

evictLRU(c) ==
    IF Back(c.evictList) # Nil THEN evictElement(c, Back(c.evictList)) ELSE c

\* Size() returns evictList.Len().
Size == Len(evictList)

Stored == {k \in Keys : items[k] # Nil}

(***************************************************************************)
(* The methods of Cache as functions of the cache's data.                  *)
(***************************************************************************)

\* Get that returns a hit without moving the element to the front.
GetOpNoPromote(c, k, t) ==
    LET e == c.items[k] IN
    IF e # Nil
    THEN IF GetExpired(c.elems[e], t)
         THEN [c |-> [evictElement(c, e) EXCEPT !.misses = @ + 1],
               value |-> Nil, found |-> FALSE]
         ELSE [c |-> [c EXCEPT !.elems[e].UseCount = @ + 1,
                               !.hits = @ + 1],
               value |-> c.elems[e].Value, found |-> TRUE]
    ELSE [c |-> [c EXCEPT !.misses = @ + 1], value |-> Nil, found |-> FALSE]

\* Get that removes an expired entry without counting the miss.
GetOpMissUncounted(c, k, t) ==
    LET e == c.items[k] IN
    IF e # Nil
    THEN IF GetExpired(c.elems[e], t)
         THEN [c |-> evictElement(c, e), value |-> Nil, found |-> FALSE]
         ELSE [c |-> [c EXCEPT !.evictList = MoveToFront(@, e),
                               !.elems[e].UseCount = @ + 1,
                               !.hits = @ + 1],
               value |-> c.elems[e].Value, found |-> TRUE]
    ELSE [c |-> [c EXCEPT !.misses = @ + 1], value |-> Nil, found |-> FALSE]

\* Cache.Get: the data afterwards and the pair returned.
GetOp(c, k, t) ==
    LET e == c.items[k] IN
    IF e # Nil
    THEN IF GetExpired(c.elems[e], t)
         THEN [c |-> [evictElement(c, e) EXCEPT !.misses = @ + 1],
               value |-> Nil, found |-> FALSE]
         ELSE [c |-> [c EXCEPT !.evictList = MoveToFront(@, e),
                               !.elems[e].UseCount = @ + 1,
                               !.hits = @ + 1],
               value |-> c.elems[e].Value, found |-> TRUE]
    ELSE [c |-> [c EXCEPT !.misses = @ + 1], value |-> Nil, found |-> FALSE]


\* Set on a stored key that forgets to move the element to the front.
SetExistingNoPromote(c, e, v, ttl, t) ==
    [c EXCEPT !.elems[e].Value = v,
              !.elems[e].Timestamp = t,
              !.elems[e].TTL = ttl]

\* Cache.Set on a key the map holds: the entry is rewritten in place.
SetExisting(c, e, v, ttl, t) ==
    [c EXCEPT !.evictList = MoveToFront(@, e),
              !.elems[e].Value = v,
              !.elems[e].Timestamp = t,
              !.elems[e].TTL = ttl]

\* Cache.Set on a new key: push to the front, then evict while over capacity.
SetNew(c, cap, k, v, ttl, t) ==
    LET n == NewElem(c)
        c1 == [c EXCEPT !.elems[n] = CacheEntry(k, v, t, ttl),
                        !.evictList = PushFront(@, n),
                        !.items[k] = n,
                        !.size = @ + 1]
    IN IF Len(c1.evictList) > cap THEN evictLRU(c1) ELSE c1

SetOp(c, cap, k, v, ttl, t) ==
    IF c.items[k] # Nil
    THEN SetExisting(c, c.items[k], v, ttl, t)
    ELSE SetNew(c, cap, k, v, ttl, t)

ClearOp(c) ==
    [c EXCEPT !.items = [k \in Keys |-> Nil], !.evictList = <<>>, !.size = 0]

\* One iteration of cleanupExpired's loop over the map.
SweepStep(c, k, t) ==
    LET e == c.items[k] IN
    IF e # Nil /\ SweepExpired(c.elems[e], t)
    THEN [evictElement(c, e) EXCEPT !.misses = @ + 1, !.items[k] = Nil]
    ELSE c

\* cleanupExpired: the loop, over the keys of the map in some order.
RECURSIVE SweepLoop(_, _, _)
SweepLoop(c, ks, t) ==
    IF ks = {} THEN c
    ELSE LET k == CHOOSE x \in ks : TRUE
         IN SweepLoop(SweepStep(c, k, t), ks \ {k}, t)

cleanupExpired(c, t) == SweepLoop(c, {k \in Keys : c.items[k] # Nil}, t)

(***************************************************************************)
(* The cache as a state machine.                                           *)
(***************************************************************************)
\* The model's counters stay within their bound (UseCount never exceeds hits).
WithinBounds(c) == c.hits + c.misses <= MaxCount

Install(c) ==
    \E g \in {Collect(c)} :
        /\ items' = g.items
        /\ evictList' = g.evictList
        /\ elems' = g.elems
        /\ hits' = g.hits
        /\ misses' = g.misses
        /\ size' = g.size

\* The number of keys a call took out of the map.
Removed(c) == Cardinality({k \in Keys : items[k] # Nil /\ c.items[k] = Nil})

\* History: key k (Nil: none) was touched by a call that left the data as c.
Touch(k, c) ==
    SelectSeq(IF k = Nil THEN recency ELSE <<k>> \o ListRemove(recency, k),
              LAMBDA x : c.items[x] # Nil)

\* The record of a call: its arguments, the time it ran at, what it returned
\* (for Set, found tells whether the key was already stored), how many keys
\* it removed, and whether it directly followed a Set of the same key.
Returned(op, k, v, ttl, found, c) ==
    [op |-> op, key |-> k, value |-> v, ttl |-> ttl, at |-> now, found |-> found,
     removed |-> Removed(c),
     afterSet |-> (op = "Get" /\ ret.op = "Set" /\ ret.key = k)]

\* The cache of a specification that is about another component.
CacheIdle ==
    /\ capacity = 1
    /\ items = [k \in Keys |-> Nil]
    /\ evictList = <<>>
    /\ elems = [e \in ElemIds |-> NoEntry]
    /\ hits = 0
    /\ misses = 0
    /\ size = 0
    /\ now = 0
    /\ ret = [op |-> "None", key |-> Nil, value |-> Nil, ttl |-> 0, at |-> 0,
              found |-> FALSE, removed |-> 0, afterSet |-> FALSE]
    /\ recency = <<>>

\* The pool of a specification that is about another component.
PoolIdle ==
    /\ poolSize = 1
    /\ workers = 0
    /\ closed = FALSE
    /\ wg = 0
    /\ pc = [t \in Tasks |-> "new"]
    /\ panicking = {}
    /\ crashed = FALSE
    /\ waiter = "idle"
    /\ awaited = {}
    /\ late = {}

\* The queue of a specification that is about another component.
QueueIdle ==
    /\ batchSize = 1
    /\ messages = <<>>
    /\ batches = [ty \in {} |-> <<>>]
    /\ proc = [at |-> "select", msgType |-> "", caller |-> "", rest |-> {}]
    /\ submitted = <<>>
    /\ hpc = [m \in Msgs |-> [at |-> "new", Type |-> ""]]
    /\ queueLength = 0
    /\ messagesProcessed = 0
    /\ received = <<>>
    /\ tick = [open |-> [ty \in {} |-> <<>>], from |-> 0]

NotStarted == [at |-> "new", retries |-> 0, timeout |-> 0, answered |-> FALSE, log |-> <<>>]

Calling == [at |-> "idle", duration |-> 0, avg |-> 0]

NeverCalled == [called |-> FALSE, avg |-> 0, sampled |-> FALSE, timeout |-> 0]

\* NewBot's &TimeoutManager{}: no sample, the mutex free, nobody calling.
TimeoutIdle ==
    /\ averageResponseTime = 0
    /\ tmMutex = Nil
    /\ upc = [g \in Goroutines |-> Calling]
    /\ recorded = 0
    /\ got = NeverCalled
    /\ rl = [h \in Handlers |-> NotStarted]

\* A message the client has not delivered yet.
NotArrived == [at |-> "new", sender |-> Nil, prompt |-> Nil, arrived |-> 0,
               retries |-> 0, timeout |-> 0, sent |-> <<>>]

\* make(map[string]*rate.Limiter), make(map[string]*Conversation) and
\* make(map[string]CachedResponse): maps without keys.
NoVisitors == [s \in {} |-> <<>>]

NoConversations == [c \in {} |-> <<>>]

NoResponses == [c \in {} |-> <<>>]

\* The bot of a specification that is about another component.
ChatIdle ==
    /\ visitors = NoVisitors
    /\ conversations = NoConversations
    /\ responseCache = NoResponses
    /\ th = [m \in Arrivals |-> NotArrived]
    /\ reqs = [m \in Arrivals |-> <<>>]

\* The account manager of a specification that is about another component:
\* no bot registered, none made.
NoBots == [n \in {} |-> 0]

ManagerIdle ==
    /\ bots = NoBots
    /\ instances = <<>>
    /\ heap = <<>>
    /\ turns = <<>>

\* The mutexes of the Bot of src/whatsapp/bot.go and of its TimeoutManager.
LockNames == {"mutex", "cacheMux", "timeouts"}

\* A message the client has not delivered yet (src/whatsapp/bot.go).
NotHandled == [at |-> "new", prompt |-> Nil, user |-> Nil, retries |-> 0, timeout |-> 0,
               sent |-> <<>>]

\* The chat has no entry in Bot.conversations yet.
NoHistory == [made |-> FALSE, Messages |-> <<>>]

\* The bot of src/whatsapp/bot.go as NewBot returns it.
BatchIdle ==
    /\ locks = [l \in LockNames |-> {}]
    /\ pb = [b \in 1..NumBatches |-> NotHandled]
    /\ gor = [b \in 1..NumBatches |-> <<>>]
    /\ hist = NoHistory
    /\ bcache = [p \in {} |-> 0]

CacheInit ==
    /\ capacity \in 1..MaxCapacity
    /\ items = [k \in Keys |-> Nil]
    /\ evictList = <<>>
    /\ elems = [e \in ElemIds |-> NoEntry]
    /\ hits = 0
    /\ misses = 0
    /\ size = 0
    /\ now = 0
    /\ ret = [op |-> "None", key |-> Nil, value |-> Nil, ttl |-> 0, at |-> 0,
              found |-> FALSE, removed |-> 0, afterSet |-> FALSE]
    /\ recency = <<>>
    /\ PoolIdle
    /\ QueueIdle
    /\ TimeoutIdle
    /\ ChatIdle
    /\ ManagerIdle
    /\ BatchIdle

Get(k) ==
    \E r \in {GetOp(Cur, k, now)} :
    /\ WithinBounds(r.c)
    /\ Install(r.c)
    /\ ret' = Returned("Get", k, r.value, 0, r.found, r.c)
    /\ recency' = Touch(IF r.found THEN k ELSE Nil, r.c)
    /\ UNCHANGED <<capacity, now>>
    /\ UNCHANGED poolVars
    /\ UNCHANGED <<managerVars, batchVars>>
    /\ UNCHANGED queueVars
    /\ UNCHANGED timeoutVars
    /\ UNCHANGED chatVars

Set(k, v, ttl) ==
    \E c \in {SetOp(Cur, capacity, k, v, ttl, now)} :
    /\ Install(c)
    /\ ret' = Returned("Set", k, v, ttl, items[k] # Nil, c)
    /\ recency' = Touch(k, c)
    /\ UNCHANGED <<capacity, now>>
    /\ UNCHANGED poolVars
    /\ UNCHANGED <<managerVars, batchVars>>
    /\ UNCHANGED queueVars
    /\ UNCHANGED timeoutVars
    /\ UNCHANGED chatVars

Clear ==
    \E c \in {ClearOp(Cur)} :
    /\ Install(c)
    /\ ret' = Returned("Clear", Nil, Nil, 0, FALSE, c)
    /\ recency' = Touch(Nil, c)
    /\ UNCHANGED <<capacity, now>>
    /\ UNCHANGED poolVars
    /\ UNCHANGED <<managerVars, batchVars>>
    /\ UNCHANGED queueVars
    /\ UNCHANGED timeoutVars
    /\ UNCHANGED chatVars

\* startCleanup: the ticker fired and cleanupExpired ran.
Sweep ==
    \E c \in {cleanupExpired(Cur, now)} :
    /\ WithinBounds(c)
    /\ Install(c)
    /\ ret' = Returned("Sweep", Nil, Nil, 0, FALSE, c)
    /\ recency' = Touch(Nil, c)
    /\ UNCHANGED <<capacity, now>>
    /\ UNCHANGED poolVars
    /\ UNCHANGED <<managerVars, batchVars>>
    /\ UNCHANGED queueVars
    /\ UNCHANGED timeoutVars
    /\ UNCHANGED chatVars

\* Time passes.
Tick ==
    /\ now < MaxTime
    /\ now' = now + 1
    /\ UNCHANGED <<capacity, items, evictList, elems, hits, misses, size, ret, recency>>
    /\ UNCHANGED poolVars
    /\ UNCHANGED <<managerVars, batchVars>>
    /\ UNCHANGED queueVars
    /\ UNCHANGED timeoutVars
    /\ UNCHANGED chatVars

CacheNext ==
    \/ \E k \in Keys : Get(k)
    \/ \E k \in Keys, v \in Values, ttl \in TTLs : Set(k, v, ttl)
    \/ Clear
    \/ Sweep
    \/ Tick

(***************************************************************************)
(* WorkerPool (queue/worker.go).  workers is a buffered channel used as a  *)
(* semaphore, wg a sync.WaitGroup.  Each statement of Submit and of the    *)
(* goroutine it starts is one step.  A send on a closed channel and a      *)
(* second close panic; nothing in the repository recovers, so a panic ends *)
(* the process.  A receive from a closed, empty channel returns at once.   *)
(*                                                                         *)
(*   pc[t]: "new"       Submit(t) not called yet                           *)
(*          "added"     after p.wg.Add(1), at the send p.workers <- {}     *)
(*          "acquired"  after the send, before the go statement            *)
(*          "running"   the goroutine runs task()                          *)
(*          "deferred"  task() has ended, at the deferred <-p.workers      *)
(*          "released"  after the receive, at p.wg.Done()                  *)
(*          "done"      the goroutine has ended                            *)
(*          "unwinding" as "done", with the task's panic still propagating *)
(*          "panicked"  the send of Submit(t) panicked                     *)
(***************************************************************************)
PoolInit ==
    /\ poolSize \in 1..MaxPool
    /\ workers = 0
    /\ closed = FALSE
    /\ wg = 0
    /\ pc = [t \in Tasks |-> "new"]
    /\ panicking = {}
    /\ crashed = FALSE
    /\ waiter = "idle"
    /\ awaited = {}
    /\ late = {}
    /\ CacheIdle
    /\ QueueIdle
    /\ TimeoutIdle
    /\ ChatIdle
    /\ ManagerIdle
    /\ BatchIdle

\* Submit: p.wg.Add(1)
SubmitAdd(t) ==
    /\ ~crashed
    /\ pc[t] = "new"
    /\ wg' = wg + 1
    /\ pc' = [pc EXCEPT ![t] = "added"]
    /\ late' = IF closed THEN late \cup {t} ELSE late
    /\ UNCHANGED <<poolSize, workers, closed, panicking, crashed, waiter, awaited>>
    /\ UNCHANGED cacheVars
    /\ UNCHANGED queueVars
    /\ UNCHANGED timeoutVars
    /\ UNCHANGED chatVars
    /\ UNCHANGED <<managerVars, batchVars>>


\* The send admitting one task too many.
SubmitSendOffByOne(t) ==
    /\ ~crashed
    /\ pc[t] = "added"
    /\ \/ /\ closed
          /\ pc' = [pc EXCEPT ![t] = "panicked"]
          /\ crashed' = TRUE
          /\ UNCHANGED workers
       \/ /\ ~closed
          /\ workers <= poolSize
          /\ workers' = workers + 1
          /\ pc' = [pc EXCEPT ![t] = "acquired"]
          /\ UNCHANGED crashed
    /\ UNCHANGED <<poolSize, closed, wg, panicking, waiter, awaited, late>>
    /\ UNCHANGED cacheVars
    /\ UNCHANGED queueVars
    /\ UNCHANGED timeoutVars
    /\ UNCHANGED chatVars
    /\ UNCHANGED <<managerVars, batchVars>>

\* The send succeeding on a closed channel.
SubmitSendIgnoresClose(t) ==
    /\ ~crashed
    /\ pc[t] = "added"
    /\ workers < poolSize
    /\ workers' = workers + 1
    /\ pc' = [pc EXCEPT ![t] = "acquired"]
    /\ UNCHANGED <<poolSize, closed, wg, panicking, crashed, waiter, awaited, late>>
    /\ UNCHANGED cacheVars
    /\ UNCHANGED queueVars
    /\ UNCHANGED timeoutVars
    /\ UNCHANGED chatVars
    /\ UNCHANGED <<managerVars, batchVars>>

\* Submit: p.workers <- struct{}{}  (blocks while the buffer is full)
SubmitSend(t) ==
    /\ ~crashed
    /\ pc[t] = "added"
    /\ \/ /\ closed
          /\ pc' = [pc EXCEPT ![t] = "panicked"]
          /\ crashed' = TRUE
          /\ UNCHANGED workers
       \/ /\ ~closed
          /\ workers < poolSize
          /\ workers' = workers + 1
          /\ pc' = [pc EXCEPT ![t] = "acquired"]
          /\ UNCHANGED crashed
    /\ UNCHANGED <<poolSize, closed, wg, panicking, waiter, awaited, late>>
    /\ UNCHANGED cacheVars
    /\ UNCHANGED queueVars
    /\ UNCHANGED timeoutVars
    /\ UNCHANGED chatVars
    /\ UNCHANGED <<managerVars, batchVars>>

\* Submit: go func() { ... }(), and Submit returns
SubmitGo(t) ==
    /\ ~crashed
    /\ pc[t] = "acquired"
    /\ pc' = [pc EXCEPT ![t] = "running"]
    /\ UNCHANGED <<poolSize, workers, closed, wg, panicking, crashed, waiter, awaited, late>>
    /\ UNCHANGED cacheVars
    /\ UNCHANGED queueVars
    /\ UNCHANGED timeoutVars
    /\ UNCHANGED chatVars
    /\ UNCHANGED <<managerVars, batchVars>>

\* task() returns.
TaskReturn(t) ==
    /\ ~crashed
    /\ pc[t] = "running"
    /\ pc' = [pc EXCEPT ![t] = "deferred"]
    /\ UNCHANGED <<poolSize, workers, closed, wg, panicking, crashed, waiter, awaited, late>>
    /\ UNCHANGED cacheVars
    /\ UNCHANGED queueVars
    /\ UNCHANGED timeoutVars
    /\ UNCHANGED chatVars
    /\ UNCHANGED <<managerVars, batchVars>>

\* task() panics: the deferred function runs while the panic propagates.
TaskPanic(t) ==
    /\ ~crashed
    /\ pc[t] = "running"
    /\ pc' = [pc EXCEPT ![t] = "deferred"]
    /\ panicking' = panicking \cup {t}
    /\ UNCHANGED <<poolSize, workers, closed, wg, crashed, waiter, awaited, late>>
    /\ UNCHANGED cacheVars
    /\ UNCHANGED queueVars
    /\ UNCHANGED timeoutVars
    /\ UNCHANGED chatVars
    /\ UNCHANGED <<managerVars, batchVars>>

\* deferred: <-p.workers  (blocks while the channel is open and empty)
Release(t) ==
    /\ ~crashed
    /\ pc[t] = "deferred"
    /\ \/ /\ workers > 0
          /\ workers' = workers - 1
       \/ /\ workers = 0
          /\ closed
          /\ UNCHANGED workers
    /\ pc' = [pc EXCEPT ![t] = "released"]
    /\ UNCHANGED <<poolSize, closed, wg, panicking, crashed, waiter, awaited, late>>
    /\ UNCHANGED cacheVars
    /\ UNCHANGED queueVars
    /\ UNCHANGED timeoutVars
    /\ UNCHANGED chatVars
    /\ UNCHANGED <<managerVars, batchVars>>


\* Done waking Wait whatever the counter.
DoneWakesAlways(t) ==
    /\ ~crashed
    /\ pc[t] = "released"
    /\ wg > 0
    /\ wg' = wg - 1
    /\ pc' = [pc EXCEPT ![t] = IF t \in panicking THEN "unwinding" ELSE "done"]
    /\ waiter' = IF waiter = "waiting" THEN "woken" ELSE waiter
    /\ UNCHANGED <<poolSize, workers, closed, panicking, crashed, awaited, late>>
    /\ UNCHANGED cacheVars
    /\ UNCHANGED queueVars
    /\ UNCHANGED timeoutVars
    /\ UNCHANGED chatVars
    /\ UNCHANGED <<managerVars, batchVars>>

\* deferred: p.wg.Done(); the Done that brings the counter to zero wakes Wait.
Done(t) ==
    /\ ~crashed
    /\ pc[t] = "released"
    /\ wg > 0
    /\ wg' = wg - 1
    /\ pc' = [pc EXCEPT ![t] = IF t \in panicking THEN "unwinding" ELSE "done"]
    /\ waiter' = IF waiter = "waiting" /\ wg' = 0 THEN "woken" ELSE waiter
    /\ UNCHANGED <<poolSize, workers, closed, panicking, crashed, awaited, late>>
    /\ UNCHANGED cacheVars
    /\ UNCHANGED queueVars
    /\ UNCHANGED timeoutVars
    /\ UNCHANGED chatVars
    /\ UNCHANGED <<managerVars, batchVars>>

\* The task's panic leaves its goroutine unrecovered: the process ends.
Crash(t) ==
    /\ ~crashed
    /\ pc[t] = "unwinding"
    /\ crashed' = TRUE
    /\ UNCHANGED <<poolSize, workers, closed, wg, pc, panicking, waiter, awaited, late>>
    /\ UNCHANGED cacheVars
    /\ UNCHANGED queueVars
    /\ UNCHANGED timeoutVars
    /\ UNCHANGED chatVars
    /\ UNCHANGED <<managerVars, batchVars>>

\* Wait is called: p.wg.Wait() returns at once on a zero counter.
WaitCall ==
    /\ ~crashed
    /\ waiter \in {"idle", "returned"}
    /\ awaited' = {t \in Tasks : pc[t] # "new"}
    /\ waiter' = IF wg = 0 THEN "returned" ELSE "waiting"
    /\ UNCHANGED <<poolSize, workers, closed, wg, pc, panicking, crashed, late>>
    /\ UNCHANGED cacheVars
    /\ UNCHANGED queueVars
    /\ UNCHANGED timeoutVars
    /\ UNCHANGED chatVars
    /\ UNCHANGED <<managerVars, batchVars>>

\* Wait returns after it was woken.
WaitReturn ==
    /\ ~crashed
    /\ waiter = "woken"
    /\ waiter' = "returned"
    /\ UNCHANGED <<poolSize, workers, closed, wg, pc, panicking, crashed, awaited, late>>
    /\ UNCHANGED cacheVars
    /\ UNCHANGED queueVars
    /\ UNCHANGED timeoutVars
    /\ UNCHANGED chatVars
    /\ UNCHANGED <<managerVars, batchVars>>

\* Stop: close(p.workers); closing a closed channel panics.
Stop ==
    /\ ~crashed
    /\ \/ /\ ~closed
          /\ closed' = TRUE
          /\ UNCHANGED crashed
       \/ /\ closed
          /\ crashed' = TRUE
          /\ UNCHANGED closed
    /\ UNCHANGED <<poolSize, workers, wg, pc, panicking, waiter, awaited, late>>
    /\ UNCHANGED cacheVars
    /\ UNCHANGED queueVars
    /\ UNCHANGED timeoutVars
    /\ UNCHANGED chatVars
    /\ UNCHANGED <<managerVars, batchVars>>

PoolNext ==
    \/ \E t \in Tasks : SubmitAdd(t)
    \/ \E t \in Tasks : SubmitSend(t)
    \/ \E t \in Tasks : SubmitGo(t)
    \/ \E t \in Tasks : TaskReturn(t)
    \/ \E t \in Tasks : TaskPanic(t)
    \/ \E t \in Tasks : Release(t)
    \/ \E t \in Tasks : Done(t)
    \/ \E t \in Tasks : Crash(t)
    \/ WaitCall
    \/ WaitReturn
    \/ Stop

(***************************************************************************)
(* Queue (queue/queue.go).  NewQueue starts one batchProcessor goroutine;  *)
(* it alone calls addToBatch and processBatches, each under q.batchMutex,  *)
(* so the open batches are touched by that goroutine only.  The other      *)
(* goroutines meet it at the intake channel, at the pool and at the        *)
(* metrics.  The pool of the queue is the WorkerPool above; nothing in the *)
(* repository calls its Stop or Wait, and the task of a batch only updates *)
(* metrics.                                                                *)
(*                                                                         *)
(*   proc.at: "select"  at the select of batchProcessor                    *)
(*            "range"   in processBatches, at the head of its loop over    *)
(*                      the map; proc.rest are the types not yet visited   *)
(*            "Submit"  in processBatch, inside q.workerPool.Submit; the   *)
(*                      closure is task Len(submitted) of the pool         *)
(*   hpc[m].at: "new"      at the send of Enqueue                          *)
(*              "sent"     after the send, at queueLength.Inc()            *)
(*              "enqueued" Enqueue has returned                            *)
(*              "calling"  handleTextMessage is inside makeAIRequest       *)
(*              "done"     the backend call has returned                   *)
(***************************************************************************)
NoBatches == [ty \in {} |-> <<>>]

AtSelect == [at |-> "select", msgType |-> "", caller |-> "", rest |-> {}]

Message(m, ty) == [ID |-> m, Type |-> ty]

MessageBatch(ty, msgs) == [Type |-> ty, Messages |-> msgs]

\* addToBatch putting the message at the head of its batch.
addToBatchPrepends(bs, msg) ==
    IF msg.Type \in DOMAIN bs
    THEN [bs EXCEPT ![msg.Type].Messages = <<msg>> \o @]
    ELSE [ty \in DOMAIN bs \cup {msg.Type} |->
            IF ty = msg.Type THEN MessageBatch(msg.Type, <<msg>>) ELSE bs[ty]]

\* addToBatch, lines 102-111 without the call of processBatch: the open
\* batches after msg was appended to the batch of its type, or after a batch
\* was made for it.
addToBatch(bs, msg) ==
    IF msg.Type \in DOMAIN bs
    THEN [bs EXCEPT ![msg.Type].Messages = Append(@, msg)]
    ELSE [ty \in DOMAIN bs \cup {msg.Type} |->
            IF ty = msg.Type THEN MessageBatch(msg.Type, <<msg>>) ELSE bs[ty]]

\* addToBatch, lines 102 and 105: msg joins an existing batch, which then holds
\* at least n (q.batchSize) messages.
SizeTriggered(bs, msg, n) ==
    /\ msg.Type \in DOMAIN bs
    /\ Len(bs[msg.Type].Messages) + 1 >= n

\* processBatch passing over a batch of one message.
FlushableAboveOne(bs, ty) == ty \in DOMAIN bs /\ Len(bs[ty].Messages) > 1

\* processBatch, line 125.
Flushable(bs, ty) == ty \in DOMAIN bs /\ Len(bs[ty].Messages) > 0

\* processBatch leaving the batch in the map.
deleteBatchForgotten(bs, ty) == bs

\* delete(q.batches, msgType)
deleteBatch(bs, ty) == [t \in DOMAIN bs \ {ty} |-> bs[t]]

\* processBatch up to the call of Submit: the closure captures the batch.
EnterProcessBatch(bs, ty, caller, rest) ==
    /\ proc' = [at |-> "Submit", msgType |-> ty, caller |-> caller, rest |-> rest]
    /\ submitted' = Append(submitted, bs[ty])

QueueInit ==
    /\ TimeoutIdle
    /\ ChatIdle
    /\ ManagerIdle
    /\ BatchIdle
    /\ batchSize \in 1..MaxBatch
    /\ messages = <<>>
    /\ batches = NoBatches
    /\ proc = AtSelect
    /\ submitted = <<>>
    /\ hpc = [m \in Msgs |-> [at |-> "new", Type |-> ""]]
    /\ queueLength = 0
    /\ messagesProcessed = 0
    /\ received = <<>>
    /\ tick = [open |-> NoBatches, from |-> 0]
    /\ poolSize \in 1..MaxPool
    /\ workers = 0
    /\ closed = FALSE
    /\ wg = 0
    /\ pc = [t \in Tasks |-> "new"]
    /\ panicking = {}
    /\ crashed = FALSE
    /\ waiter = "idle"
    /\ awaited = {}
    /\ late = {}
    /\ CacheIdle

\* Enqueue: q.messages <- msg  (blocks while the buffer is full).  The ids
\* number the messages in the order of their sends.
EnqueueSend(m, ty) ==
    /\ hpc[m].at = "new"
    /\ \A k \in Msgs : k < m => hpc[k].at # "new"
    /\ Len(messages) < ChanCap
    /\ messages' = Append(messages, Message(m, ty))
    /\ hpc' = [hpc EXCEPT ![m] = [at |-> "sent", Type |-> ty]]
    /\ UNCHANGED <<batchSize, batches, proc, submitted, queueLength,
                   messagesProcessed, received, tick>>
    /\ UNCHANGED <<cacheVars, poolVars, timeoutVars, chatVars>>
    /\ UNCHANGED <<managerVars, batchVars>>

\* Enqueue: q.metrics.queueLength.Inc(), and Enqueue returns
EnqueueInc(m) ==
    /\ hpc[m].at = "sent"
    /\ queueLength' = queueLength + 1
    /\ hpc' = [hpc EXCEPT ![m].at = "enqueued"]
    /\ UNCHANGED <<batchSize, messages, batches, proc, submitted,
                   messagesProcessed, received, tick>>
    /\ UNCHANGED <<cacheVars, poolVars, timeoutVars, chatVars>>
    /\ UNCHANGED <<managerVars, batchVars>>

\* handleTextMessage after Enqueue: the response is not cached and the
\* handler's goroutine calls makeAIRequest itself.
BackendCall(m) ==
    /\ hpc[m].at = "enqueued"
    /\ hpc[m].Type = "text"
    /\ hpc' = [hpc EXCEPT ![m].at = "calling"]
    /\ UNCHANGED <<batchSize, messages, batches, proc, submitted, queueLength,
                   messagesProcessed, received, tick>>
    /\ UNCHANGED <<cacheVars, poolVars, timeoutVars, chatVars>>
    /\ UNCHANGED <<managerVars, batchVars>>

\* makeAIRequest returns (a response, an error or the deadline).
BackendReturn(m) ==
    /\ hpc[m].at = "calling"
    /\ hpc' = [hpc EXCEPT ![m].at = "done"]
    /\ UNCHANGED <<batchSize, messages, batches, proc, submitted, queueLength,
                   messagesProcessed, received, tick>>
    /\ UNCHANGED <<cacheVars, poolVars, timeoutVars, chatVars>>
    /\ UNCHANGED <<managerVars, batchVars>>

\* batchProcessor: case msg := <-q.messages, then addToBatch(msg) up to its
\* return or to the Submit of a batch that has reached batchSize.
SelectMessage ==
    /\ proc.at = "select"
    /\ messages # <<>>
    /\ \E msg \in {Head(messages)} :
       \E bs \in {addToBatch(batches, msg)} :
          /\ messages' = Tail(messages)
          /\ received' = Append(received, msg)
          /\ batches' = bs
          /\ IF SizeTriggered(batches, msg, batchSize) /\ Flushable(bs, msg.Type)
             THEN EnterProcessBatch(bs, msg.Type, "addToBatch", {})
             ELSE UNCHANGED <<proc, submitted>>
    /\ UNCHANGED <<batchSize, hpc, queueLength, messagesProcessed, tick>>
    /\ UNCHANGED <<cacheVars, poolVars, timeoutVars, chatVars>>
    /\ UNCHANGED <<managerVars, batchVars>>

\* batchProcessor: case <-ticker.C, then processBatches up to its loop.
SelectTicker ==
    /\ proc.at = "select"
    /\ proc' = [at |-> "range", msgType |-> "", caller |-> "processBatches",
                rest |-> DOMAIN batches]
    /\ tick' = [open |-> batches, from |-> Len(submitted)]
    /\ UNCHANGED <<batchSize, messages, batches, submitted, hpc, queueLength,
                   messagesProcessed, received>>
    /\ UNCHANGED <<cacheVars, poolVars, timeoutVars, chatVars>>
    /\ UNCHANGED <<managerVars, batchVars>>

\* processBatches: the next msgType of the range over q.batches (in any
\* order), then processBatch(msgType) up to its Submit.
RangeNext ==
    /\ proc.at = "range"
    /\ \E ty \in proc.rest :
          IF Flushable(batches, ty)
          THEN EnterProcessBatch(batches, ty, "processBatches", proc.rest \ {ty})
          ELSE /\ proc' = [proc EXCEPT !.rest = @ \ {ty}]
               /\ UNCHANGED submitted
    /\ UNCHANGED <<batchSize, messages, batches, hpc, queueLength,
                   messagesProcessed, received, tick>>
    /\ UNCHANGED <<cacheVars, poolVars, timeoutVars, chatVars>>
    /\ UNCHANGED <<managerVars, batchVars>>

\* processBatches: the range is over, the mutex is released.
RangeEnd ==
    /\ proc.at = "range"
    /\ proc.rest = {}
    /\ proc' = AtSelect
    /\ UNCHANGED <<batchSize, messages, batches, submitted, hpc, queueLength,
                   messagesProcessed, received, tick>>
    /\ UNCHANGED <<cacheVars, poolVars, timeoutVars, chatVars>>
    /\ UNCHANGED <<managerVars, batchVars>>

\* The processor is inside Submit for task t.
InSubmit(t) == proc.at = "Submit" /\ t = Len(submitted)

\* processBatch: q.workerPool.Submit(func() {...}) begins.
ProcessBatchSubmit(t) == InSubmit(t) /\ SubmitAdd(t)

\* processBatch: Submit has returned; delete(q.batches, msgType), and back to
\* addToBatch, which returns, or to the loop of processBatches.
ProcessBatchDelete ==
    /\ proc.at = "Submit"
    /\ Len(submitted) \in Tasks
    /\ pc[Len(submitted)] \notin {"new", "added", "acquired"}
    /\ batches' = deleteBatch(batches, proc.msgType)
    /\ proc' = IF proc.caller = "addToBatch" THEN AtSelect
               ELSE [at |-> "range", msgType |-> "", caller |-> "processBatches",
                     rest |-> proc.rest]
    /\ UNCHANGED <<batchSize, messages, submitted, hpc, queueLength,
                   messagesProcessed, received, tick>>
    /\ UNCHANGED <<cacheVars, poolVars, timeoutVars, chatVars>>
    /\ UNCHANGED <<managerVars, batchVars>>

\* The task of a batch (the closure of processBatch) runs and returns.
BatchTask(t) ==
    /\ ~crashed
    /\ pc[t] = "running"
    /\ t \in DOMAIN submitted
    /\ queueLength' = queueLength - Len(submitted[t].Messages)
    /\ messagesProcessed' = messagesProcessed + Len(submitted[t].Messages)
    /\ pc' = [pc EXCEPT ![t] = "deferred"]
    /\ UNCHANGED <<batchSize, messages, batches, proc, submitted, hpc, received, tick>>
    /\ UNCHANGED <<poolSize, workers, closed, wg, panicking, crashed, waiter, awaited, late>>
    /\ UNCHANGED <<cacheVars, timeoutVars, chatVars>>
    /\ UNCHANGED <<managerVars, batchVars>>

QueueNext ==
    \/ \E m \in Msgs, ty \in MessageTypes : EnqueueSend(m, ty)
    \/ \E m \in Msgs : EnqueueInc(m)
    \/ SelectMessage
    \/ SelectTicker
    \/ RangeNext
    \/ RangeEnd
    \/ \E t \in Tasks : ProcessBatchSubmit(t)
    \/ \E t \in Tasks : SubmitSend(t)
    \/ \E t \in Tasks : SubmitGo(t)
    \/ ProcessBatchDelete
    \/ \E t \in Tasks : BatchTask(t)
    \/ \E t \in Tasks : Release(t)
    \/ \E t \in Tasks : Done(t)

\* The queue with the handlers of the bot that feed it.
BotNext ==
    \/ QueueNext
    \/ \E m \in Msgs : BackendCall(m)
    \/ \E m \in Msgs : BackendReturn(m)

(***************************************************************************)
(* The timeout manager and the retry loop of the handler of a text        *)
(* message (handleTextMessage; src/whatsapp/bot.go has the same manager    *)
(* and the same loop in processBatch).  A time.Duration is an              *)
(* int64 count of units; updateResponseTime smooths in float64 and         *)
(* converts back by truncation.                                            *)
(***************************************************************************)
TimeoutInit ==
    /\ CacheIdle
    /\ PoolIdle
    /\ QueueIdle
    /\ ChatIdle
    /\ ManagerIdle
    /\ BatchIdle
    /\ averageResponseTime = 0
    /\ tmMutex = Nil
    /\ upc = [g \in Goroutines |-> Calling]
    /\ recorded = 0
    /\ got = NeverCalled
    /\ rl = [h \in Handlers |-> NotStarted]

\* getOptimalTimeout, from the average it reads.
getOptimalTimeout(avg) ==
    IF avg = 0 THEN INITIAL_TIMEOUT
    ELSE IF avg * 2 < INITIAL_TIMEOUT THEN INITIAL_TIMEOUT
    ELSE IF avg * 2 > MAX_TIMEOUT THEN MAX_TIMEOUT
    ELSE avg * 2

\* 0.7*old + 0.3*d in whole units when float64 loses nothing.
Weighted(old, d) == (7 * old + 3 * d) \div 10

\* float64 holds neither 0.7 nor 0.3.  Where 0.7*old + 0.3*d is a whole
\* number, the float64 sum can fall just below it and the conversion to
\* time.Duration then truncates to one unit less.  RoundsBelow lists the
\* pairs <<old, d>> up to 33 where every evaluation order IEEE 754 allows
\* does so; MayRoundBelow those where it depends on whether the build fuses
\* a multiplication into the addition (the Go specification allows it, and
\* the compiler does it on some architectures).
RoundsBelow ==
    {<<11, 1>>, <<19, 9>>, <<22, 2>>, <<29, 29>>, <<33, 23>>}

MayRoundBelow ==
    {<<1, 31>>, <<3, 3>>, <<3, 13>>, <<6, 6>>, <<6, 26>>, <<7, 7>>, <<9, 29>>,
     <<11, 21>>, <<12, 2>>, <<12, 12>>, <<12, 22>>, <<13, 23>>, <<14, 4>>,
     <<14, 14>>, <<17, 7>>, <<21, 1>>, <<21, 31>>, <<23, 3>>, <<23, 13>>,
     <<23, 23>>, <<23, 33>>, <<24, 4>>, <<24, 14>>, <<24, 24>>, <<28, 8>>,
     <<28, 18>>, <<28, 28>>, <<29, 9>>, <<29, 19>>, <<31, 31>>, <<33, 3>>,
     <<33, 13>>}

\* time.Duration(float64(old)*0.7 + float64(d)*0.3): the values a build can
\* produce.
Smoothed(old, d) ==
    IF <<old, d>> \in RoundsBelow THEN {Weighted(old, d) - 1}
    ELSE IF <<old, d>> \in MayRoundBelow THEN {Weighted(old, d) - 1, Weighted(old, d)}
    ELSE {Weighted(old, d)}

\* updateResponseTime: the averages it can leave, from the average it read
\* and the sample d.
updateResponseTime(avg, d) ==
    IF avg = 0 THEN {d} ELSE Smoothed(avg, d)

\* tm.mutex can be taken: no goroutine holds it.  (getOptimalTimeout holds
\* its read lock within one step, so no reader is ever seen holding it.)
TryLockUnguarded(m) == TRUE

TryLock(m) == m = Nil

\* updateResponseTime(d) by goroutine g: tm.mutex.Lock().
UpdateLock(g, d) ==
    /\ upc[g].at = "idle"
    /\ recorded + Cardinality({x \in Goroutines : upc[x].at # "idle"}) < MaxUpdates
    /\ TryLock(tmMutex)
    /\ tmMutex' = g
    /\ upc' = [upc EXCEPT ![g] = [at |-> "locked", duration |-> d, avg |-> 0]]
    /\ UNCHANGED <<averageResponseTime, recorded, got, rl>>
    /\ UNCHANGED <<cacheVars, poolVars, queueVars, chatVars>>
    /\ UNCHANGED <<managerVars, batchVars>>

\* It reads tm.averageResponseTime.
UpdateRead(g) ==
    /\ upc[g].at = "locked"
    /\ upc' = [upc EXCEPT ![g].at = "read", ![g].avg = averageResponseTime]
    /\ UNCHANGED <<averageResponseTime, tmMutex, recorded, got, rl>>
    /\ UNCHANGED <<cacheVars, poolVars, queueVars, chatVars>>
    /\ UNCHANGED <<managerVars, batchVars>>

\* It assigns tm.averageResponseTime and returns; the deferred Unlock runs.
UpdateWrite(g) ==
    /\ upc[g].at = "read"
    /\ averageResponseTime' \in updateResponseTime(upc[g].avg, upc[g].duration)
    /\ tmMutex' = Nil
    /\ recorded' = recorded + 1
    /\ upc' = [upc EXCEPT ![g] = Calling]
    /\ UNCHANGED <<got, rl>>
    /\ UNCHANGED <<cacheVars, poolVars, queueVars, chatVars>>
    /\ UNCHANGED <<managerVars, batchVars>>

\* What a call of getOptimalTimeout made now leaves in got.
Got ==
    [called |-> TRUE, avg |-> averageResponseTime, sampled |-> recorded > 0,
     timeout |-> getOptimalTimeout(averageResponseTime)]

\* timeout = time.Duration(float64(timeout) * 1.5), capped.  float64 holds
\* 1.5 and every timeout exactly, so only the truncation is left.
EscalateUncapped(timeout) == (3 * timeout) \div 2

Escalate(timeout) ==
    IF (3 * timeout) \div 2 > MAX_TIMEOUT THEN MAX_TIMEOUT ELSE (3 * timeout) \div 2

Attempt(timeout) == [kind |-> "attempt", timeout |-> timeout]

Notice(timeout) == [kind |-> "notice", timeout |-> timeout]

\* The errors makeAIRequest returns: the deadline of the attempt has passed,
\* the connection failed otherwise, the answer holds no choice.
Errors == {"deadline exceeded", "connection refused", "no response from AI"}

isTimeoutError(err) == err = "deadline exceeded"

\* The handler reads the timeout to start from and enters the loop: the
\* first makeAIRequest begins.
Begin(h) ==
    /\ rl[h].at = "new"
    /\ TryLock(tmMutex)
    /\ got' = Got
    /\ rl' = [rl EXCEPT ![h] = [at |-> "request", retries |-> 0,
                                timeout |-> Got.timeout, answered |-> FALSE,
                                log |-> <<Attempt(Got.timeout)>>]]
    /\ UNCHANGED <<averageResponseTime, tmMutex, upc, recorded>>
    /\ UNCHANGED <<cacheVars, poolVars, queueVars, chatVars>>
    /\ UNCHANGED <<managerVars, batchVars>>

\* The backend answers the attempt after d, within the deadline, and the
\* attempt's goroutine calls updateResponseTime(d).
Response(h, d) ==
    /\ rl[h].at = "request"
    /\ ~rl[h].answered
    /\ d <= rl[h].timeout
    /\ recorded < MaxUpdates
    /\ TryLock(tmMutex)
    /\ averageResponseTime' \in updateResponseTime(averageResponseTime, d)
    /\ recorded' = recorded + 1
    /\ rl' = [rl EXCEPT ![h].answered = TRUE]
    /\ UNCHANGED <<tmMutex, upc, got>>
    /\ UNCHANGED <<cacheVars, poolVars, queueVars, chatVars>>
    /\ UNCHANGED <<managerVars, batchVars>>

\* makeAIRequest returns the answer: err == nil, the loop is left.
Succeed(h) ==
    /\ rl[h].at = "request"
    /\ rl[h].answered
    /\ rl' = [rl EXCEPT ![h].at = "replied"]
    /\ UNCHANGED <<averageResponseTime, tmMutex, upc, recorded, got>>
    /\ UNCHANGED <<cacheVars, poolVars, queueVars, chatVars>>
    /\ UNCHANGED <<managerVars, batchVars>>

\* makeAIRequest returns err: the handler gives up, or goes round the loop,
\* sends the notice and calls makeAIRequest again.
Fail(h, err) ==
    /\ rl[h].at = "request"
    /\ err = "connection refused" => ~rl[h].answered
    /\ err = "no response from AI" => rl[h].answered
    /\ IF rl[h].retries = MAX_RETRIES \/ ~isTimeoutError(err)
       THEN rl' = [rl EXCEPT ![h].at = "failed"]
       ELSE \E t \in {Escalate(rl[h].timeout)} :
               rl' = [rl EXCEPT ![h].retries = @ + 1,
                                ![h].timeout = t,
                                ![h].answered = FALSE,
                                ![h].log = @ \o <<Notice(t), Attempt(t)>>]
    /\ UNCHANGED <<averageResponseTime, tmMutex, upc, recorded, got>>
    /\ UNCHANGED <<cacheVars, poolVars, queueVars, chatVars>>
    /\ UNCHANGED <<managerVars, batchVars>>

\* The timeout manager with the goroutines that update it and read it.
TimeoutNext ==
    \/ \E g \in Goroutines, d \in Samples : UpdateLock(g, d)
    \/ \E g \in Goroutines : UpdateRead(g)
    \/ \E g \in Goroutines : UpdateWrite(g)
    \/ \E h \in Handlers : Begin(h)

\* The handlers of text messages.
RetryNext ==
    \/ \E h \in Handlers : Begin(h)
    \/ \E h \in Handlers, d \in Samples : Response(h, d)
    \/ \E h \in Handlers : Succeed(h)
    \/ \E h \in Handlers, err \in Errors : Fail(h, err)

(***************************************************************************)
(* The bot: handleMessage, the rate limiter, the conversations and the     *)
(* text handler of a private chat.  Every message delivered is a text      *)
(* message of a private chat to a logged-in bot (the others return before  *)
(* the rate limiter or start another handler), so the chat is the sender.  *)
(***************************************************************************)
\* One token in the limiter's units: a unit of time earns LimitNum of them,
\* so tokens are counted exactly.
OneToken == LimitDen * Second

Min(a, b) == IF a < b THEN a ELSE b

\* rate.NewLimiter(limit, burst): the first call finds the bucket full.
NewLimiter == [last |-> 0, tokens |-> Burst * OneToken]

\* An Allow that debits the bucket and restarts the clock when it refuses.
limiterAllowDebits(lim, t) ==
    LET tokens == Min(Burst * OneToken, lim.tokens + (t - lim.last) * LimitNum)
    IN  IF tokens >= OneToken
        THEN [lim |-> [last |-> t, tokens |-> tokens - OneToken], ok |-> TRUE]
        ELSE [lim |-> [last |-> t, tokens |-> 0], ok |-> FALSE]

\* (*rate.Limiter).Allow at time t: the bucket is refilled for the time since
\* last, up to the burst; a token is taken if there is one, and nothing
\* changes if there is none.
limiterAllow(lim, t) ==
    LET tokens == Min(Burst * OneToken, lim.tokens + (t - lim.last) * LimitNum)
    IN  IF tokens >= OneToken
        THEN [lim |-> [last |-> t, tokens |-> tokens - OneToken], ok |-> TRUE]
        ELSE [lim |-> lim, ok |-> FALSE]

\* Map m with key k set to v.
Put(m, k, v) == [x \in DOMAIN m \cup {k} |-> IF x = k THEN v ELSE m[x]]

\* RateLimiter.Allow(userID) at time t: the visitors afterwards and the
\* answer.
Allow(vs, userID, t) ==
    LET limiter == IF userID \in DOMAIN vs THEN vs[userID] ELSE NewLimiter
        r == limiterAllow(limiter, t)
    IN  [visitors |-> Put(vs, userID, r.lim), ok |-> r.ok]

\* BotMessage; Turn is history: the message whose handling appended the entry
\* (0: a message handled before the behaviour starts).
BotMessage(role, content, m) == [Role |-> role, Content |-> content, Turn |-> m]

\* &Conversation{Messages: make([]BotMessage, 0)}
NewConversation == [Messages |-> <<>>, LastActive |-> 0, Summary |-> Nil]

\* initConversation(chatID) at time t.
initConversation(cs, chatID, t) ==
    LET conv == IF chatID \in DOMAIN cs THEN cs[chatID] ELSE NewConversation
    IN  Put(cs, chatID, [conv EXCEPT !.LastActive = t])

\* The history n answered text turns leave: user and assistant entries in
\* turn.
Earlier(n) ==
    [i \in 1..(2 * n) |->
        IF i % 2 = 1 THEN BotMessage("user", 1, 0) ELSE BotMessage("assistant", 1, 0)]

\* The bot with a chat of sender 1 in which n turns have been answered, a
\* while ago (the limiter's bucket is full again), and never summarized; the
\* new bot if n is 0.
Seeded(n) ==
    /\ capacity = BotCacheCapacity
    /\ items = [k \in Keys |-> Nil]
    /\ evictList = <<>>
    /\ elems = [e \in ElemIds |-> NoEntry]
    /\ hits = 0
    /\ misses = 0
    /\ size = 0
    /\ now = 0
    /\ ret = [op |-> "None", key |-> Nil, value |-> Nil, ttl |-> 0, at |-> 0,
              found |-> FALSE, removed |-> 0, afterSet |-> FALSE]
    /\ recency = <<>>
    /\ PoolIdle
    /\ QueueIdle
    /\ TimeoutIdle
    /\ IF n = 0
       THEN /\ visitors = NoVisitors
            /\ conversations = NoConversations
       ELSE /\ visitors = Put(NoVisitors, 1, NewLimiter)
            /\ conversations =
                   Put(NoConversations, 1, [NewConversation EXCEPT !.Messages = Earlier(n)])
    /\ responseCache = NoResponses
    /\ th = [m \in Arrivals |-> NotArrived]
    /\ reqs = [m \in Arrivals |-> <<>>]
    /\ ManagerIdle
    /\ BatchIdle

\* The bot when the behaviour starts, new or not.
ChatInit == \E n \in 0..MaxEarlier : Seeded(n)

\* The bot NewBot returns.
FreshInit == Seeded(0)

\* What a handler sends to the chat, as its log records it: the notices of
\* sendAcknowledgment, the cached response and the reply.
Sent(kind, text) == [kind |-> kind, text |-> text]

RateLimitNotice == Sent("limit", 0)

\* handleMessage when Allow refuses, without the return.
RejectedGoesOn(h, s, p, t) ==
    [h EXCEPT !.at = "started", !.sender = s, !.prompt = p, !.arrived = t,
              !.sent = <<RateLimitNotice>>]

\* handleMessage when Allow refuses: the notice is sent and the handler
\* returns.
Rejected(h, s, p, t) ==
    [h EXCEPT !.at = "limited", !.sender = s, !.prompt = p, !.arrived = t,
              !.sent = <<RateLimitNotice>>]

\* handleMessage for the message m of sender s with text p: refused by the
\* rate limiter, the notice is sent and nothing else is done; admitted, the
\* conversation is created or refreshed and the text handler is started.
\* The messages are numbered in the order they are delivered, the senders
\* and the texts in the order they first appear.
HandleMessage(m, s, p) ==
    /\ th[m].at = "new"
    /\ \A k \in Arrivals : k < m => th[k].at # "new"
    /\ \A x \in Senders : x < s => x \in DOMAIN visitors
    /\ \A x \in Prompts : x < p => \E k \in Arrivals : th[k].prompt = x
    /\ \E r \in {Allow(visitors, s, now)} :
          /\ visitors' = r.visitors
          /\ IF r.ok
             THEN /\ conversations' = initConversation(conversations, s, now)
                  /\ th' = [th EXCEPT ![m] = [@ EXCEPT !.at = "started", !.sender = s,
                                                       !.prompt = p, !.arrived = now]]
             ELSE /\ conversations' = conversations
                  /\ th' = [th EXCEPT ![m] = Rejected(@, s, p, now)]
    /\ UNCHANGED <<responseCache, reqs>>
    /\ UNCHANGED <<cacheVars, poolVars, queueVars, timeoutVars>>
    /\ UNCHANGED <<managerVars, batchVars>>

\* The goroutine makeAIRequest starts, before it has taken b.mutex; the
\* deadline of its context is timeout.
NewRequest(timeout) ==
    [at |-> "lock", timeout |-> timeout, ok |-> FALSE, response |-> Nil, err |-> "",
     summ |-> "none", summary |-> Nil]

\* A request whose channels nobody will read any more: what they hold is
\* not kept.
Dropped(r) == [r EXCEPT !.ok = FALSE, !.response = Nil, !.err = ""]

\* The attempt handler m is waiting for (0: none yet).
Current(m) == Len(reqs[m])

\* handleTextMessage up to its first makeAIRequest: the message is put on the
\* queue (Enqueue neither waits for nor learns of its processing), then the
\* response cache is asked.  On a hit the cached response is sent and, if the
\* send succeeds (sendOk), the handler returns; otherwise the timeout is
\* read and the first request is started.
TurnBegin(m, sendOk) ==
    /\ th[m].at = "started"
    /\ Len(messages) < ChanCap
    /\ messages' = Append(messages, Message(m, "text"))
    /\ queueLength' = queueLength + 1
    /\ UNCHANGED <<batchSize, batches, proc, submitted, hpc, messagesProcessed,
                   received, tick>>
    /\ \E r \in {GetOp(Cur, th[m].prompt, now)} :
          /\ Install(r.c)
          /\ IF /\ r.found
                /\ now - elems[items[th[m].prompt]].Timestamp < CacheTTL
                /\ sendOk
             THEN /\ th' = [th EXCEPT ![m].at = "done",
                                      ![m].sent = Append(@, Sent("cached", r.value))]
                  /\ UNCHANGED reqs
             ELSE /\ TryLock(tmMutex)
                  /\ \E t \in {getOptimalTimeout(averageResponseTime)} :
                        /\ th' = [th EXCEPT ![m].at = "request", ![m].timeout = t]
                        /\ reqs' = [reqs EXCEPT ![m] = <<NewRequest(t)>>]
    /\ UNCHANGED <<capacity, now, ret, recency>>
    /\ UNCHANGED timeoutVars
    /\ UNCHANGED <<visitors, conversations, responseCache>>
    /\ UNCHANGED poolVars
    /\ UNCHANGED <<managerVars, batchVars>>

\* conv.Messages[len(conv.Messages)-MAX_HISTORY:] when there are more.
Trim(msgs) ==
    IF Len(msgs) > MAX_HISTORY
    THEN SubSeq(msgs, Len(msgs) - MAX_HISTORY + 1, Len(msgs))
    ELSE msgs

\* The request goroutine of attempt a of message m, under b.mutex: the
\* history is cut to its last MAX_HISTORY entries, the user entry is
\* appended and the request's messages are built.
RequestAppend(m, a) ==
    /\ a \in 1..Len(reqs[m])
    /\ reqs[m][a].at = "lock"
    /\ conversations' =
           [conversations EXCEPT ![th[m].sender].Messages =
                Append(Trim(@), BotMessage("user", th[m].prompt, m))]
    /\ reqs' = [reqs EXCEPT ![m][a].at = "check"]
    /\ UNCHANGED <<visitors, responseCache, th>>
    /\ UNCHANGED <<cacheVars, poolVars, queueVars, timeoutVars>>
    /\ UNCHANGED <<managerVars, batchVars>>

\* The request goroutine after Unlock: it reads the history's length and
\* starts summarizeConversation if it exceeds MAX_HISTORY, then sends the
\* request.
RequestCheck(m, a) ==
    /\ a \in 1..Len(reqs[m])
    /\ reqs[m][a].at = "check"
    /\ reqs' = [reqs EXCEPT ![m][a].at = "call",
                            ![m][a].summ =
                                IF Len(conversations[th[m].sender].Messages) > MAX_HISTORY
                                THEN "start" ELSE "none"]
    /\ UNCHANGED <<visitors, conversations, responseCache, th>>
    /\ UNCHANGED <<cacheVars, poolVars, queueVars, timeoutVars>>
    /\ UNCHANGED <<managerVars, batchVars>>

\* What a call of the backend comes to: a response with a choice, or an
\* error.  A body that cannot be decoded ends as an empty list of choices
\* does: an error that is no timeout, after the latency has been recorded.
Outcomes ==
    [ok : {TRUE}, response : Values, err : {""}]
        \cup [ok : {FALSE}, response : {Nil}, err : Errors]

\* The latency a call measures (the handlers of a bot share the manager; its
\* arithmetic is TimeoutSpec's subject).
Latency == Second

\* The latency is recorded when client.Do returned a response.
Records(out) == out.ok \/ out.err = "no response from AI"

\* makeAIRequest is waiting in its select for attempt a of message m.
Awaited(m, a) == th[m].at = "request" /\ a = Current(m)

\* The request goroutine from client.Do to its send on respChan or errChan
\* (both buffered: the send never waits).  What is sent after makeAIRequest
\* has returned is never received, and is not kept.
\* The goroutine's send on channels without a buffer: it waits until
\* makeAIRequest receives.
RequestDoUnbuffered(m, a, out) ==
    /\ a \in 1..Len(reqs[m])
    /\ reqs[m][a].at = "call"
    /\ Awaited(m, a)
    /\ reqs' = [reqs EXCEPT ![m][a].at = "sent", ![m][a].ok = out.ok,
                            ![m][a].response = out.response, ![m][a].err = out.err]
    /\ IF Records(out)
       THEN /\ TryLock(tmMutex)
            /\ averageResponseTime' \in updateResponseTime(averageResponseTime, Latency)
       ELSE UNCHANGED averageResponseTime
    /\ UNCHANGED <<tmMutex, upc, recorded, got, rl>>
    /\ UNCHANGED <<visitors, conversations, responseCache, th>>
    /\ UNCHANGED <<cacheVars, poolVars, queueVars>>
    /\ UNCHANGED <<managerVars, batchVars>>

RequestDo(m, a, out) ==
    /\ a \in 1..Len(reqs[m])
    /\ reqs[m][a].at = "call"
    /\ reqs' = IF Awaited(m, a)
               THEN [reqs EXCEPT ![m][a].at = "sent", ![m][a].ok = out.ok,
                                 ![m][a].response = out.response, ![m][a].err = out.err]
               ELSE [reqs EXCEPT ![m][a].at = "sent"]
    /\ IF Records(out)
       THEN /\ TryLock(tmMutex)
            /\ averageResponseTime' \in updateResponseTime(averageResponseTime, Latency)
       ELSE UNCHANGED averageResponseTime
    /\ UNCHANGED <<tmMutex, upc, recorded, got, rl>>
    /\ UNCHANGED <<visitors, conversations, responseCache, th>>
    /\ UNCHANGED <<cacheVars, poolVars, queueVars>>
    /\ UNCHANGED <<managerVars, batchVars>>

\* makeAIRequest receives from respChan and returns the response; the
\* handler leaves the loop, caches the response, appends the assistant entry
\* and sends the reply (an error of SendMessage is only printed).
Receive(m) ==
    /\ th[m].at = "request"
    /\ reqs[m][Current(m)].at = "sent"
    /\ reqs[m][Current(m)].ok
    /\ \E v \in {reqs[m][Current(m)].response} :
          /\ responseCache' = Put(responseCache, th[m].sender, v)
          /\ \E c \in {SetOp(Cur, capacity, th[m].prompt, v, CacheTTL, now)} :
                Install(c)
          /\ conversations' =
                 [conversations EXCEPT ![th[m].sender].Messages =
                      Append(@, BotMessage("assistant", v, m))]
          /\ th' = [th EXCEPT ![m].at = "done", ![m].sent = Append(@, Sent("reply", v))]
    /\ reqs' = [reqs EXCEPT ![m][Current(m)] = [Dropped(@) EXCEPT !.at = "received"]]
    /\ UNCHANGED <<capacity, now, ret, recency>>
    /\ UNCHANGED visitors
    /\ UNCHANGED <<poolVars, queueVars, timeoutVars>>
    /\ UNCHANGED <<managerVars, batchVars>>

\* The loop on err that gives up without the failure notice.
FailedSilently(m, err, rs) ==
    IF th[m].retries = MAX_RETRIES \/ ~isTimeoutError(err)
    THEN /\ th' = [th EXCEPT ![m].at = "failed"]
         /\ reqs' = rs
    ELSE \E t \in {Escalate(th[m].timeout)} :
            /\ th' = [th EXCEPT ![m].retries = @ + 1, ![m].timeout = t,
                                ![m].sent = Append(@, Sent("retry", t))]
            /\ reqs' = [rs EXCEPT ![m] = Append(@, NewRequest(t))]

\* handleTextMessage when makeAIRequest returned err, the requests being rs:
\* it gives up with the failure notice, or escalates the timeout, sends the
\* retry notice and calls makeAIRequest again.
Failed(m, err, rs) ==
    IF th[m].retries = MAX_RETRIES \/ ~isTimeoutError(err)
    THEN /\ th' = [th EXCEPT ![m].at = "failed",
                             ![m].sent = Append(@, Sent("failure",
                                                      IF isTimeoutError(err) THEN 1 ELSE 0))]
         /\ reqs' = rs
    ELSE \E t \in {Escalate(th[m].timeout)} :
            /\ th' = [th EXCEPT ![m].retries = @ + 1, ![m].timeout = t,
                                ![m].sent = Append(@, Sent("retry", t))]
            /\ reqs' = [rs EXCEPT ![m] = Append(@, NewRequest(t))]

\* makeAIRequest receives from errChan.
ReceiveErr(m) ==
    /\ th[m].at = "request"
    /\ reqs[m][Current(m)].at = "sent"
    /\ ~reqs[m][Current(m)].ok
    /\ Failed(m, reqs[m][Current(m)].err,
              [reqs EXCEPT ![m][Current(m)] = [Dropped(@) EXCEPT !.at = "received"]])
    /\ UNCHANGED <<visitors, conversations, responseCache>>
    /\ UNCHANGED <<cacheVars, poolVars, queueVars, timeoutVars>>
    /\ UNCHANGED <<managerVars, batchVars>>

\* makeAIRequest's context is done before the select has received: the
\* timeout is counted and ctx.Err() returned.  The goroutine goes on; what
\* it sends is never received.  The deadline is INITIAL_TIMEOUT away at the
\* least and b.mutex is held for in-memory work only, so the goroutine has
\* sent its request by then.
Deadline(m) ==
    /\ th[m].at = "request"
    /\ reqs[m][Current(m)].at \in {"call", "sent"}
    /\ Failed(m, "deadline exceeded", [reqs EXCEPT ![m][Current(m)] = Dropped(@)])
    /\ UNCHANGED <<visitors, conversations, responseCache>>
    /\ UNCHANGED <<cacheVars, poolVars, queueVars, timeoutVars>>
    /\ UNCHANGED <<managerVars, batchVars>>

\* summarizeConversation, started by attempt a of message m, under b.mutex:
\* it returns if the history is shorter than MAX_HISTORY, and otherwise
\* builds the prompt and starts the goroutine that makes the request.
SummarizeStart(m, a) ==
    /\ a \in 1..Len(reqs[m])
    /\ reqs[m][a].summ = "start"
    /\ reqs' = [reqs EXCEPT ![m][a].summ =
                    IF Len(conversations[th[m].sender].Messages) < MAX_HISTORY
                    THEN "returned" ELSE "call"]
    /\ UNCHANGED <<visitors, conversations, responseCache, th>>
    /\ UNCHANGED <<cacheVars, poolVars, queueVars, timeoutVars>>
    /\ UNCHANGED <<managerVars, batchVars>>

\* The deadline summarizeConversation gives its request.
SummaryDeadline == DEFAULT_TIMEOUT

\* A cut that keeps the last entry only.
LastOne(msgs) == SubSeq(msgs, Len(msgs), Len(msgs))

\* The last two entries: conv.Messages[len(conv.Messages)-2:].
LastTwo(msgs) == SubSeq(msgs, Len(msgs) - 1, Len(msgs))

\* A summarization that cuts the history whether or not it got a summary.
SummarizeDoneCuts(m, a, out) ==
    /\ a \in 1..Len(reqs[m])
    /\ reqs[m][a].summ = "call"
    /\ IF Records(out)
       THEN /\ TryLock(tmMutex)
            /\ averageResponseTime' \in updateResponseTime(averageResponseTime, Latency)
       ELSE UNCHANGED averageResponseTime
    /\ conversations' =
           [conversations EXCEPT ![th[m].sender].Summary = IF out.ok THEN out.response ELSE @,
                                 ![th[m].sender].Messages = LastTwo(@)]
    /\ reqs' = [reqs EXCEPT ![m][a].summ = IF out.ok THEN "done" ELSE "failed",
                            ![m][a].summary = out.response]
    /\ UNCHANGED <<tmMutex, upc, recorded, got, rl>>
    /\ UNCHANGED <<visitors, responseCache, th>>
    /\ UNCHANGED <<cacheVars, poolVars, queueVars>>
    /\ UNCHANGED <<managerVars, batchVars>>

\* The goroutine of summarizeConversation: makeIndependentAIRequest(prompt,
\* DEFAULT_TIMEOUT) returns.  With an error it prints and returns; with a
\* summary it stores it and keeps the last two entries.
SummarizeDone(m, a, out) ==
    /\ a \in 1..Len(reqs[m])
    /\ reqs[m][a].summ = "call"
    /\ IF Records(out)
       THEN /\ TryLock(tmMutex)
            /\ averageResponseTime' \in updateResponseTime(averageResponseTime, Latency)
       ELSE UNCHANGED averageResponseTime
    /\ IF out.ok
       THEN /\ conversations' =
                   [conversations EXCEPT ![th[m].sender].Summary = out.response,
                                         ![th[m].sender].Messages = LastTwo(@)]
            /\ reqs' = [reqs EXCEPT ![m][a].summ = "done", ![m][a].summary = out.response]
       ELSE /\ conversations' = conversations
            /\ reqs' = [reqs EXCEPT ![m][a].summ = "failed"]
    /\ UNCHANGED <<tmMutex, upc, recorded, got, rl>>
    /\ UNCHANGED <<visitors, responseCache, th>>
    /\ UNCHANGED <<cacheVars, poolVars, queueVars>>
    /\ UNCHANGED <<managerVars, batchVars>>

\* cleanupCache: its ticker fired and the response cache is cleared.
cleanupCache ==
    /\ Install(ClearOp(Cur))
    /\ UNCHANGED <<capacity, now, ret, recency>>
    /\ UNCHANGED <<poolVars, queueVars, timeoutVars, chatVars>>
    /\ UNCHANGED <<managerVars, batchVars>>

\* The attempts a handler can make.
Attempts == 1..(MAX_RETRIES + 1)

\* The new bot answering the text messages that arrive within the rate
\* limiter's two seconds: handleMessage, the text handlers with their
\* request goroutines, and cleanupCache.  No history grows beyond
\* MAX_HISTORY, so no summarization is started.  The cache's own sweep finds
\* nothing to remove: no entry reaches its ttl of 24 hours.  The histories of
\* the cache's and the timeout manager's own specifications (ret, recency,
\* recorded, got) are not kept here.
TurnNext ==
    \/ \E m \in Turns, s \in Senders, p \in Prompts : HandleMessage(m, s, p)
    \/ \E m \in Turns, sendOk \in BOOLEAN : TurnBegin(m, sendOk)
    \/ \E m \in Turns, a \in Attempts : RequestAppend(m, a)
    \/ \E m \in Turns, a \in Attempts : RequestCheck(m, a)
    \/ \E m \in Turns, a \in Attempts, out \in Outcomes : RequestDo(m, a, out)
    \/ \E m \in Turns : Receive(m)
    \/ \E m \in Turns : ReceiveErr(m)
    \/ \E m \in Turns : Deadline(m)
    \/ cleanupCache

\* One text message to a bot whose chat with sender 1 may have a history:
\* the text handler with its request goroutines and the summarizations they
\* start.
HistoryNext ==
    \/ \E s \in Senders, p \in Prompts : HandleMessage(1, s, p)
    \/ \E m \in Turns, sendOk \in BOOLEAN : TurnBegin(m, sendOk)
    \/ \E m \in Turns, a \in Attempts : RequestAppend(m, a)
    \/ \E m \in Turns, a \in Attempts : RequestCheck(m, a)
    \/ \E m \in Turns, a \in Attempts, out \in Outcomes : RequestDo(m, a, out)
    \/ \E m \in Turns : Receive(m)
    \/ \E m \in Turns : ReceiveErr(m)
    \/ \E m \in Turns : Deadline(m)
    \/ \E m \in Turns, a \in Attempts : SummarizeStart(m, a)
    \/ \E m \in Turns, a \in Attempts, out \in Outcomes : SummarizeDone(m, a, out)
    \/ cleanupCache

\* The rate limiter under the messages the client delivers as time passes.
AdmitNext ==
    \/ \E m \in Arrivals, s \in Senders, p \in Prompts : HandleMessage(m, s, p)
    \/ Tick

(***************************************************************************)
(* The account manager (src/whatsapp/account_manager.go, the version that  *)
(* gives NewBot the manager and the ID) and the bots it makes with NewBot  *)
(* of src/unnamed/part_008.  A Bot is a struct of pointers: instances holds *)
(* the addresses and heap the objects, so that two bots share an object    *)
(* exactly when their fields hold the same address.  The counters of the   *)
(* cache package (hits, misses, size) are package variables: every cache   *)
(* of the process counts on them.  The text handler of a bot is taken one  *)
(* message at a time and one attempt a step; its interleavings within one  *)
(* bot are those of TurnSpec.  A sender is admitted once per bot while the *)
(* clock stands, so no history here grows beyond MAX_HISTORY.              *)
(***************************************************************************)
\* The numbers n of the IDs "bot_n".
BotIds == 1..(MaxBots + 1)

\* The fields cache.NewCache sets: an empty map and an empty list.
NewCacheObject ==
    [items |-> [k \in Keys |-> Nil], evictList |-> <<>>,
     elems |-> [e \in ElemIds |-> NoEntry]]

\* The whatsmeow client of a bot; removed is history (RemoveBot was called
\* for the bot).
NewClient == [connected |-> FALSE, removed |-> FALSE]

\* A NewBot that takes the rate limiter of the first bot made on heap h.
NewBotSharedLimiter(h, id) ==
    [bot |-> [botID |-> id, client |-> Len(h) + 1, conversations |-> Len(h) + 2,
              cache |-> Len(h) + 3, timeouts |-> Len(h) + 4,
              messageQueue |-> Len(h) + 5, responseCache |-> Len(h) + 6,
              rateLimiter |-> 7],
     heap |-> h \o <<NewClient, NoConversations, NewCacheObject, 0, 0, NoResponses,
                     NoVisitors>>]

\* NewBot(client, db, am, id) on heap h: the Bot and the heap with the
\* objects it made (the client, the maps, the cache, the TimeoutManager, the
\* queue as the number of messages enqueued, the RateLimiter's map).
NewBot(h, id) ==
    [bot |-> [botID |-> id, client |-> Len(h) + 1, conversations |-> Len(h) + 2,
              cache |-> Len(h) + 3, timeouts |-> Len(h) + 4,
              messageQueue |-> Len(h) + 5, responseCache |-> Len(h) + 6,
              rateLimiter |-> Len(h) + 7],
     heap |-> h \o <<NewClient, NoConversations, NewCacheObject, 0, 0, NoResponses,
                     NoVisitors>>]

\* botID := fmt.Sprintf("bot_%d", len(am.bots)+1)
NextId(bs) == Cardinality(DOMAIN bs) + 1

\* The manager's data as one record.
Manager == [bots |-> bots, instances |-> instances, heap |-> heap]

\* Lines 161-165 (and 236-240): the ID is made, the bot is made and put into
\* the map under the ID.
Register(am) ==
    LET r == NewBot(am.heap, NextId(am.bots))
    IN  [bots |-> Put(am.bots, NextId(am.bots), Len(am.instances) + 1),
         instances |-> Append(am.instances, r.bot),
         heap |-> r.heap]

\* The loop of LoadBots over n devices.
RECURSIVE LoadLoop(_, _)
LoadLoop(am, n) == IF n = 0 THEN am ELSE LoadLoop(Register(am), n - 1)

\* No handler of a text message is running on the bot.
NoTurn == [sender |-> Nil, prompt |-> Nil, retries |-> 0]

InstallManager(am) ==
    /\ bots' = am.bots
    /\ instances' = am.instances
    /\ heap' = am.heap

ManagerFrame ==
    /\ UNCHANGED <<capacity, items, evictList, elems, now, ret, recency>>
    /\ UNCHANGED <<poolVars, queueVars, timeoutVars, chatVars, batchVars>>

\* The program after NewAccountManager.
ManagerInit ==
    /\ CacheIdle
    /\ PoolIdle
    /\ QueueIdle
    /\ TimeoutIdle
    /\ ChatIdle
    /\ BatchIdle
    /\ bots = NoBots
    /\ instances = <<>>
    /\ heap = <<>>
    /\ turns = <<>>

CreateNewBot ==
    /\ Len(instances) < MaxBots
    /\ InstallManager(Register(Manager))
    /\ turns' = Append(turns, NoTurn)
    /\ UNCHANGED <<hits, misses, size>>
    /\ ManagerFrame

\* LoadBots with n devices in the store; the bots are connected by the
\* goroutines it starts (Connect).
LoadBots(n) ==
    /\ Len(instances) + n <= MaxBots
    /\ InstallManager(LoadLoop(Manager, n))
    /\ turns' = turns \o [i \in 1..n |-> NoTurn]
    /\ UNCHANGED <<hits, misses, size>>
    /\ ManagerFrame

\* Bot.Connect, called by the caller of CreateNewBot or by LoadBots'
\* goroutine.
Connect(a) ==
    /\ a \in DOMAIN instances
    /\ ~heap[instances[a].client].connected
    /\ ~heap[instances[a].client].removed
    /\ heap' = [heap EXCEPT ![instances[a].client].connected = TRUE]
    /\ UNCHANGED <<bots, instances, turns, hits, misses, size>>
    /\ ManagerFrame

\* RemoveBot("bot_n") on the manager's data: the data afterwards and whether
\* an error is returned.
RemoveBotOp(am, n) ==
    IF n \notin DOMAIN am.bots
    THEN [am |-> am, err |-> TRUE]
    ELSE [am |-> [am EXCEPT
                    !.heap[am.instances[am.bots[n]].client] =
                        [connected |-> FALSE, removed |-> TRUE],
                    !.bots = [k \in DOMAIN am.bots \ {n} |-> am.bots[k]]],
          err |-> FALSE]

RemoveBot(n) ==
    /\ InstallManager(RemoveBotOp(Manager, n).am)
    /\ UNCHANGED <<turns, hits, misses, size>>
    /\ ManagerFrame

\* handleLoggedOut of bot a: the bot asks the manager to remove the ID it was
\* given.
LoggedOut(a) ==
    /\ a \in DOMAIN instances
    /\ heap[instances[a].client].connected
    /\ InstallManager(RemoveBotOp(Manager, instances[a].botID).am)
    /\ UNCHANGED <<turns, hits, misses, size>>
    /\ ManagerFrame

\* The senders the rate limiters of the bots have met, over all bots.
Handled ==
    Cardinality({x \in (DOMAIN instances) \X Senders :
                    x[2] \in DOMAIN heap[instances[x[1]].rateLimiter]})

\* The senders some bot has met and the texts some bot was sent: senders and
\* texts are numbered in the order they first appear.
Met == {s \in Senders : \E a \in DOMAIN instances : s \in DOMAIN heap[instances[a].rateLimiter]}

Asked ==
    {p \in Prompts :
        \E a \in DOMAIN instances :
            \/ turns[a].prompt = p
            \/ heap[instances[a].cache].items[p] # Nil
            \/ \E c \in DOMAIN heap[instances[a].conversations] :
                  \E i \in DOMAIN heap[instances[a].conversations][c].Messages :
                      /\ heap[instances[a].conversations][c].Messages[i].Role = "user"
                      /\ heap[instances[a].conversations][c].Messages[i].Content = p}

\* The cache of bot b with the package's counters.
CacheOf(b) ==
    [items |-> heap[b.cache].items, evictList |-> heap[b.cache].evictList,
     elems |-> heap[b.cache].elems, hits |-> hits, misses |-> misses, size |-> size]

\* The cache object of the data c, and the counters set from c.
CacheObject(c) == [items |-> c.items, evictList |-> c.evictList, elems |-> c.elems]

SetCounters(c) ==
    /\ hits' = c.hits
    /\ misses' = c.misses
    /\ size' = c.size

\* handleMessage of bot a for a text message of sender s with text p, and
\* handleTextMessage up to its first makeAIRequest: refused by the bot's rate
\* limiter, nothing else is done; admitted, the conversation is created or
\* refreshed, the message is put on the bot's queue and the bot's cache is
\* asked; on a hit that is sent (sendOk) the handler returns.
BotArrive(a, s, p, sendOk) ==
    /\ a \in DOMAIN instances
    /\ heap[instances[a].client].connected
    /\ turns[a] = NoTurn
    /\ s \in DOMAIN heap[instances[a].rateLimiter] \/ Handled < MaxHandled
    /\ \A x \in Senders : x < s => x \in Met
    /\ \A x \in Prompts : x < p => x \in Asked
    /\ \E b \in {instances[a]} :
       \E r \in {Allow(heap[b.rateLimiter], s, now)} :
       \E g \in {GetOp(CacheOf(b), p, now)} :
          IF r.ok
          THEN /\ heap' = [heap EXCEPT
                              ![b.rateLimiter] = r.visitors,
                              ![b.conversations] = initConversation(@, s, now),
                              ![b.messageQueue] = @ + 1,
                              ![b.cache] = CacheObject(g.c)]
               /\ SetCounters(g.c)
               /\ turns' = [turns EXCEPT ![a] =
                               IF g.found /\ sendOk THEN NoTurn
                               ELSE [sender |-> s, prompt |-> p, retries |-> 0]]
          ELSE /\ heap' = [heap EXCEPT ![b.rateLimiter] = r.visitors]
               /\ UNCHANGED <<turns, hits, misses, size>>
    /\ UNCHANGED <<bots, instances>>
    /\ ManagerFrame

\* One attempt of the text handler of bot a: the request goroutine appends
\* the user entry, the call comes to out; a response is cached, appended and
\* sent, an error ends the handler or makes it try again.
BotAttempt(a, out) ==
    /\ a \in DOMAIN instances
    /\ turns[a] # NoTurn
    /\ \E b \in {instances[a]} :
       \E avg \in (IF Records(out) THEN updateResponseTime(heap[b.timeouts], Latency)
                   ELSE {heap[b.timeouts]}) :
       \E asked \in {[heap[b.conversations] EXCEPT ![turns[a].sender].Messages =
                         Append(Trim(@), BotMessage("user", turns[a].prompt, 0))]} :
          IF out.ok
          THEN \E c \in {SetOp(CacheOf(b), BotCacheCapacity, turns[a].prompt,
                               out.response, CacheTTL, now)} :
                  /\ heap' = [heap EXCEPT
                                 ![b.timeouts] = avg,
                                 ![b.conversations] =
                                     [asked EXCEPT ![turns[a].sender].Messages =
                                         Append(@, BotMessage("assistant", out.response, 0))],
                                 ![b.responseCache] = Put(@, turns[a].sender, out.response),
                                 ![b.cache] = CacheObject(c)]
                  /\ SetCounters(c)
                  /\ turns' = [turns EXCEPT ![a] = NoTurn]
          ELSE /\ heap' = [heap EXCEPT ![b.timeouts] = avg, ![b.conversations] = asked]
               /\ turns' = [turns EXCEPT ![a] =
                               IF @.retries = MAX_RETRIES \/ ~isTimeoutError(out.err)
                               THEN NoTurn ELSE [@ EXCEPT !.retries = @ + 1]]
               /\ UNCHANGED <<hits, misses, size>>
    /\ UNCHANGED <<bots, instances>>
    /\ ManagerFrame

ManagerNext ==
    \/ CreateNewBot
    \/ \E n \in 1..MaxBots : LoadBots(n)
    \/ \E a \in 1..MaxBots : Connect(a)
    \/ \E n \in BotIds : RemoveBot(n)
    \/ \E a \in 1..MaxBots : LoggedOut(a)
    \/ \E a \in 1..MaxBots, s \in Senders, p \in Prompts, sendOk \in BOOLEAN :
          BotArrive(a, s, p, sendOk)
    \/ \E a \in 1..MaxBots, out \in Outcomes : BotAttempt(a, out)

(***************************************************************************)
(* The bot of src/whatsapp/bot.go, whose text handler appends the user     *)
(* entry and leaves the request to processBatch, run by a timer 500 ms     *)
(* later.  One private chat; message b is handled by the goroutines        *)
(*   <<"handler", b, 0>>  handleMessage, then handleTextMessage            *)
(*   <<"batch", b, 0>>    processBatch                                     *)
(*   <<"request", b, a>>  the goroutine of its a-th makeAIRequest          *)
(* locks[l] are the goroutines holding mutex l.                            *)
(*   pb[b].at: "new"      not delivered                                    *)
(*             "handler"  handleTextMessage, at getCachedResponse          *)
(*             "append"   at b.mutex.Lock() before the user entry          *)
(*             "timer"    the timer of time.AfterFunc is running           *)
(*             "locked"   processBatch holds b.mutex, at getOptimalTimeout *)
(*             "reading"  inside getOptimalTimeout, tm.mutex read-locked   *)
(*             "select"   inside makeAIRequest, at its select              *)
(*             "done", "failed"  processBatch has returned                 *)
(*   gor[b][a].at: "lock"  at b.mutex.Lock()                               *)
(*                 "call"  after Unlock, before client.Do                  *)
(*                 "sent"  has sent on respChan or errChan and ended       *)
(* No response is ever cached (see C40), so Bot.cache stays empty and the  *)
(* loop of cleanupCache finds nothing to delete.                           *)
(***************************************************************************)
Batches == 1..NumBatches

Handler(b) == <<"handler", b, 0>>

Batch(b) == <<"batch", b, 0>>

Request(b, a) == <<"request", b, a>>

\* The mutexes goroutine g holds.
Holds(g) == {l \in LockNames : g \in locks[l]}

\* sync.RWMutex.Lock succeeds when nobody holds the mutex.
Free(l) == locks[l] = {}

\* The request goroutine as makeAIRequest starts it.
NewGoroutine == [at |-> "lock", ok |-> FALSE, response |-> Nil, err |-> ""]

BatchFrame ==
    /\ UNCHANGED <<cacheVars, poolVars, queueVars, chatVars, managerVars>>
    /\ UNCHANGED <<tmMutex, upc, recorded, got, rl>>

\* The bot of src/whatsapp/bot.go after NewBot.
BatchInit ==
    /\ CacheIdle
    /\ PoolIdle
    /\ QueueIdle
    /\ TimeoutIdle
    /\ ChatIdle
    /\ ManagerIdle
    /\ BatchIdle

\* handleMessage for message b with text p: initConversation takes b.mutex,
\* makes the conversation if there is none and releases; the text handler is
\* started.  (The deferred read of LastActive only moves a session gauge.)
\* Messages and texts are numbered in the order they appear.
DeliverMessage(b, p) ==
    /\ pb[b].at = "new"
    /\ \A k \in Batches : k < b => pb[k].at # "new"
    /\ \A x \in Prompts : x < p => \E k \in Batches : pb[k].prompt = x
    /\ Free("mutex")
    /\ hist' = [hist EXCEPT !.made = TRUE]
    /\ pb' = [pb EXCEPT ![b].at = "handler", ![b].prompt = p]
    /\ UNCHANGED <<locks, gor, bcache, averageResponseTime>>
    /\ BatchFrame

\* handleTextMessage: getCachedResponse under cacheMux; a hit that is sent
\* (sendOk) ends the handler.
TextLookup(b, sendOk) ==
    /\ pb[b].at = "handler"
    /\ Free("cacheMux")
    /\ IF pb[b].prompt \in DOMAIN bcache /\ sendOk
       THEN /\ pb' = [pb EXCEPT ![b].at = "done",
                                ![b].sent = Append(@, Sent("cached", bcache[pb[b].prompt]))]
       ELSE /\ pb' = [pb EXCEPT ![b].at = "append"]
    /\ UNCHANGED <<locks, gor, hist, bcache, averageResponseTime>>
    /\ BatchFrame

\* handleTextMessage, lines 191-207: the user entry is appended under b.mutex
\* and the timer of processBatch is started.
TextAppend(b) ==
    /\ pb[b].at = "append"
    /\ Free("mutex")
    /\ hist' = [made |-> TRUE,
                Messages |-> Append(hist.Messages, BotMessage("user", pb[b].prompt, b))]
    /\ pb' = [pb EXCEPT ![b].at = "timer"]
    /\ UNCHANGED <<locks, gor, bcache, averageResponseTime>>
    /\ BatchFrame

\* The content of the last user entry: messages[len(messages)-1].Content.
LastUser(h) ==
    LET users == SelectSeq(h, LAMBDA e : e.Role = "user")
    IN  IF users = <<>> THEN Nil ELSE users[Len(users)].Content

\* processBatch, lines 211-229: b.mutex is taken, to be released by the
\* deferred Unlock when processBatch returns; it returns at once if there is
\* no conversation or no user entry.
ProcessBatchLock(b) ==
    /\ pb[b].at = "timer"
    /\ Free("mutex")
    /\ IF ~hist.made \/ LastUser(hist.Messages) = Nil
       THEN /\ pb' = [pb EXCEPT ![b].at = "done"]
            /\ UNCHANGED locks
       ELSE /\ pb' = [pb EXCEPT ![b].at = "locked", ![b].user = LastUser(hist.Messages)]
            /\ locks' = [locks EXCEPT !["mutex"] = {Batch(b)}]
    /\ UNCHANGED <<gor, hist, bcache, averageResponseTime>>
    /\ BatchFrame

\* getOptimalTimeout, line 492: tm.mutex.RLock() (nothing write-locks it
\* before a call has returned a response).
ProcessBatchRLock(b) ==
    /\ pb[b].at = "locked"
    /\ locks' = [locks EXCEPT !["timeouts"] = @ \cup {Batch(b)}]
    /\ pb' = [pb EXCEPT ![b].at = "reading"]
    /\ UNCHANGED <<gor, hist, bcache, averageResponseTime>>
    /\ BatchFrame

\* getOptimalTimeout returns, and the first makeAIRequest starts its
\* goroutine and waits in its select.
ProcessBatchStart(b) ==
    /\ pb[b].at = "reading"
    /\ locks' = [locks EXCEPT !["timeouts"] = @ \ {Batch(b)}]
    /\ pb' = [pb EXCEPT ![b].at = "select",
                        ![b].timeout = getOptimalTimeout(averageResponseTime)]
    /\ gor' = [gor EXCEPT ![b] = <<NewGoroutine>>]
    /\ UNCHANGED <<hist, bcache, averageResponseTime>>
    /\ BatchFrame

\* The cases of makeAIRequest's select that are ready: the channel the
\* goroutine has sent on, and the deadline.
Ready(b) ==
    {"deadline"} \cup
        (IF gor[b][Len(gor[b])].at = "sent"
         THEN {IF gor[b][Len(gor[b])].ok THEN "respChan" ELSE "errChan"}
         ELSE {})

\* makeAIRequest returns by case c of its select, and processBatch goes on
\* (lines 252-291): with a response it caches it, appends the assistant
\* entry, sends the reply and returns; with an error it gives up with the
\* failure notice and returns, or escalates the timeout, sends the retry
\* notice and calls makeAIRequest again.  Returning releases b.mutex.
ProcessBatchSelect(b, c) ==
    /\ pb[b].at = "select"
    /\ c \in Ready(b)
    /\ \E g \in {gor[b][Len(gor[b])]} :
       \E err \in {IF c = "deadline" THEN "deadline exceeded" ELSE g.err} :
          IF c = "respChan"
          THEN /\ bcache' = Put(bcache, pb[b].user, g.response)
               /\ hist' = [hist EXCEPT !.Messages = Append(@, BotMessage("assistant", g.response, b))]
               /\ pb' = [pb EXCEPT ![b].at = "done",
                                   ![b].sent = Append(@, Sent("reply", g.response))]
               /\ locks' = [locks EXCEPT !["mutex"] = @ \ {Batch(b)}]
               /\ gor' = gor
          ELSE IF pb[b].retries = MAX_RETRIES \/ ~isTimeoutError(err)
          THEN /\ pb' = [pb EXCEPT ![b].at = "failed",
                                   ![b].sent = Append(@, Sent("failure",
                                                   IF isTimeoutError(err) THEN 1 ELSE 0))]
               /\ locks' = [locks EXCEPT !["mutex"] = @ \ {Batch(b)}]
               /\ UNCHANGED <<gor, hist, bcache>>
          ELSE \E t \in {Escalate(pb[b].timeout)} :
               /\ pb' = [pb EXCEPT ![b].retries = @ + 1, ![b].timeout = t,
                                   ![b].sent = Append(@, Sent("retry", t))]
               /\ gor' = [gor EXCEPT ![b] = Append(@, NewGoroutine)]
               /\ UNCHANGED <<locks, hist, bcache>>
    /\ UNCHANGED averageResponseTime
    /\ BatchFrame

\* makeAIRequest is waiting in its select for attempt a of message b.
Waited(b, a) == pb[b].at = "select" /\ a = Len(gor[b])

\* The request goroutine, lines 319-338: under b.mutex the history is cut to
\* its last MAX_HISTORY entries and the user entry is appended (again).
GoroutineAppend(b, a) ==
    /\ a \in 1..Len(gor[b])
    /\ gor[b][a].at = "lock"
    /\ Free("mutex")
    /\ hist' = [hist EXCEPT !.Messages = Append(Trim(@), BotMessage("user", pb[b].user, b))]
    /\ gor' = [gor EXCEPT ![b][a].at = "call"]
    /\ UNCHANGED <<locks, pb, bcache, averageResponseTime>>
    /\ BatchFrame

\* The request goroutine from client.Do to its send on respChan or errChan
\* (both buffered).  While makeAIRequest waits the call comes to out; after
\* makeAIRequest has returned its context is cancelled, client.Do returns
\* the context's error, and what is sent is never received.
GoroutineDo(b, a, out) ==
    /\ a \in 1..Len(gor[b])
    /\ gor[b][a].at = "call"
    /\ IF Waited(b, a)
       THEN /\ gor' = [gor EXCEPT ![b][a] = [at |-> "sent", ok |-> out.ok,
                                              response |-> out.response, err |-> out.err]]
            /\ IF Records(out)
               THEN /\ Free("timeouts")
                    /\ averageResponseTime' \in updateResponseTime(averageResponseTime, Latency)
               ELSE UNCHANGED averageResponseTime
       ELSE /\ gor' = [gor EXCEPT ![b][a].at = "sent"]
            /\ UNCHANGED averageResponseTime
    /\ UNCHANGED <<locks, pb, hist, bcache>>
    /\ BatchFrame

BatchNext ==
    \/ \E b \in Batches, p \in Prompts : DeliverMessage(b, p)
    \/ \E b \in Batches, sendOk \in BOOLEAN : TextLookup(b, sendOk)
    \/ \E b \in Batches : TextAppend(b)
    \/ \E b \in Batches : ProcessBatchLock(b)
    \/ \E b \in Batches : ProcessBatchRLock(b)
    \/ \E b \in Batches : ProcessBatchStart(b)
    \/ \E b \in Batches, c \in {"respChan", "errChan", "deadline"} : ProcessBatchSelect(b, c)
    \/ \E b \in Batches, a \in Attempts : GoroutineAppend(b, a)
    \/ \E b \in Batches, a \in Attempts, out \in Outcomes : GoroutineDo(b, a, out)

\* The new bot in one private chat while time passes and the backend
\* answers every call before its deadline: the messages of sender 1, two
\* seconds apart at the least to be admitted, with their text handlers and
\* request goroutines.
OrderNext ==
    \/ \E m \in Turns, p \in Prompts : HandleMessage(m, 1, p)
    \/ \E m \in Turns, sendOk \in BOOLEAN : TurnBegin(m, sendOk)
    \/ \E m \in Turns, a \in Attempts : RequestAppend(m, a)
    \/ \E m \in Turns, a \in Attempts : RequestCheck(m, a)
    \/ \E m \in Turns, a \in Attempts, out \in Outcomes : RequestDo(m, a, out)
    \/ \E m \in Turns : Receive(m)
    \/ \E m \in Turns : ReceiveErr(m)
    \/ Tick

(***************************************************************************)
(* The specifications.  In PoolSpec every goroutine that can take a step   *)
(* eventually takes one (the Go scheduler runs every runnable goroutine),  *)
(* and every task function ends; calls of Submit, Wait and Stop are the    *)
(* callers' choice and are not forced.                                     *)
(***************************************************************************)
CacheSpec == CacheInit /\ [][CacheNext]_vars

PoolFairness ==
    \A t \in Tasks :
        /\ WF_vars(SubmitSend(t))
        /\ WF_vars(SubmitGo(t))
        /\ WF_vars(TaskReturn(t) \/ TaskPanic(t))
        /\ WF_vars(Release(t))
        /\ WF_vars(Done(t))
        /\ WF_vars(Crash(t))

PoolSpec ==
    /\ PoolInit
    /\ [][PoolNext]_vars
    /\ PoolFairness
    /\ WF_vars(WaitReturn)

\* In QueueSpec the select of batchProcessor chooses at random among its ready
\* cases, so neither case is passed over for ever; the processor, the tasks of
\* the pool and the metrics calls take their steps.  Calls of Enqueue are the
\* callers' choice.
QueueFairness ==
    /\ SF_vars(SelectMessage)
    /\ SF_vars(SelectTicker)
    /\ WF_vars(RangeNext)
    /\ WF_vars(RangeEnd)
    /\ WF_vars(ProcessBatchDelete)
    /\ \A t \in Tasks :
          /\ WF_vars(ProcessBatchSubmit(t))
          /\ WF_vars(SubmitSend(t))
          /\ WF_vars(SubmitGo(t))
          /\ WF_vars(BatchTask(t))
          /\ WF_vars(Release(t))
          /\ WF_vars(Done(t))

QueueSpec == QueueInit /\ [][QueueNext]_vars /\ QueueFairness

BotSpec == QueueInit /\ [][BotNext]_vars

TimeoutSpec == TimeoutInit /\ [][TimeoutNext]_vars

RetrySpec == TimeoutInit /\ [][RetryNext]_vars

AdmitSpec == ChatInit /\ [][AdmitNext]_vars

TurnSpec == FreshInit /\ [][TurnNext]_vars

HistorySpec == ChatInit /\ [][HistoryNext]_vars

ManagerSpec == ManagerInit /\ [][ManagerNext]_vars

BatchSpec == BatchInit /\ [][BatchNext]_vars

OrderSpec == FreshInit /\ [][OrderNext]_vars

(***************************************************************************)
(* Vocabulary of the cache's properties.                                   *)
(***************************************************************************)
\* The entry stored under key k.
EntryOf(k) == elems[items[k]]

\* The stored keys in list order, most recently used first.
KeyOrder == [i \in 1..Len(evictList) |-> elems[evictList[i]].Key]

\* The age of the entry under k exceeds its ttl.
TtlElapsed(k, t) == t - EntryOf(k).Timestamp > EntryOf(k).TTL

\* s without its occurrences of x.
Without(s, x) == SelectSeq(s, LAMBDA y : y # x)

\* This step is the call Set(k, v, ttl), Get(k), or a run of the sweep.
SetCalled(k, v, ttl) ==
    /\ ret'.op = "Set" /\ ret'.key = k /\ ret'.value = v /\ ret'.ttl = ttl
    /\ Set(k, v, ttl)

GetCalled(k) ==
    /\ ret'.op = "Get" /\ ret'.key = k
    /\ Get(k)

SweepRan ==
    /\ ret'.op = "Sweep"
    /\ Sweep

\* This step is a Set of a key that is not stored, into a full cache.
SetNewIntoFull(k, v, ttl) ==
    /\ items[k] = Nil
    /\ Len(evictList) = capacity
    /\ SetCalled(k, v, ttl)

(***************************************************************************)
(* C1.  The number of stored entries, Size(), is at most the capacity in   *)
(* every reachable state, and a Set of a new key into a cache that holds   *)
(* capacity entries removes exactly one entry (and stores the new key).    *)
(***************************************************************************)
C1_CapacityBound ==
    /\ [](Size <= capacity)
    /\ [][\A k \in Keys, v \in Values, ttl \in TTLs :
            SetNewIntoFull(k, v, ttl) =>
                /\ Cardinality(Stored \ Stored') = 1
                /\ Stored' \ Stored = {k}
                /\ Len(evictList') = capacity]_vars

C1_Witness ==
    /\ ret.op = "Set" /\ ~ret.found /\ ret.removed = 1
    /\ Size = capacity

(***************************************************************************)
(* C2.  When Set inserts a new key into a full cache, the key evicted is   *)
(* the stored key whose most recent touch (a Set of it, or a Get that      *)
(* found it) is the oldest: the last key of the touch history.             *)
(***************************************************************************)
C2_EvictsLeastRecentlyTouched ==
    [][\A k \in Keys, v \in Values, ttl \in TTLs :
          SetNewIntoFull(k, v, ttl) =>
              Stored \ Stored' = {recency[Len(recency)]}]_vars

\* An eviction among two entries whose survivor had been promoted by a Get.
C2_Witness ==
    /\ ret.op = "Set" /\ ~ret.found /\ ret.removed = 1
    /\ Len(evictList) = 2
    /\ elems[evictList[2]].UseCount > 0

(***************************************************************************)
(* C3.  A Get(k) that directly follows Set(k, v, ttl), at a time when the  *)
(* ttl has not elapsed (now - time of the Set <= ttl), returns (v, true).  *)
(***************************************************************************)
C3_GetAfterSet ==
    [][\A k \in Keys :
          (ret.op = "Set" /\ ret.key = k /\ now - ret.at <= ret.ttl /\ GetCalled(k)) =>
              (ret'.found /\ ret'.value = ret.value)]_vars

\* Such a Get at the last moment of the ttl: the age equals the ttl.
C3_Witness ==
    /\ ret.op = "Get" /\ ret.afterSet /\ ret.found
    /\ EntryOf(ret.key).TTL > 0
    /\ ret.at - EntryOf(ret.key).Timestamp = EntryOf(ret.key).TTL

(***************************************************************************)
(* C4.  As claimed: a Get(k) on an entry whose age exceeds its ttl returns *)
(* not-found, removes the entry (Size() drops by one), counts a miss and   *)
(* no hit; a Get on any other stored entry returns its value, moves it to  *)
(* the front, increments its use count and counts a hit.                   *)
(***************************************************************************)
GetMissedExpired(k) ==
    /\ ~ret'.found /\ ret'.value = Nil
    /\ items'[k] = Nil
    /\ Len(evictList') = Len(evictList) - 1
    /\ KeyOrder' = Without(KeyOrder, k)
    /\ misses' = misses + 1 /\ hits' = hits

GetHit(k) ==
    /\ ret'.found /\ ret'.value = EntryOf(k).Value
    /\ KeyOrder' = <<k>> \o Without(KeyOrder, k)
    /\ EntryOf(k)' = [EntryOf(k) EXCEPT !.UseCount = @ + 1]
    /\ hits' = hits + 1 /\ misses' = misses

C4_AsClaimed ==
    [][\A k \in Keys :
          (items[k] # Nil /\ GetCalled(k)) =>
              IF TtlElapsed(k, now) THEN GetMissedExpired(k) ELSE GetHit(k)]_vars

(***************************************************************************)
(* C4, amended.  The same, for an entry whose ttl is positive; an entry    *)
(* whose ttl is zero is never treated as expired: Get finds it.            *)
(***************************************************************************)
C4_GetExpiredOrHit ==
    [][\A k \in Keys :
          (items[k] # Nil /\ GetCalled(k)) =>
              IF EntryOf(k).TTL > 0 /\ TtlElapsed(k, now)
              THEN GetMissedExpired(k)
              ELSE GetHit(k)]_vars

\* A Get has just removed an expired entry and left another one stored.
C4_Witness ==
    /\ ret.op = "Get" /\ ~ret.found /\ ret.removed = 1
    /\ misses > 0 /\ hits > 0
    /\ Size = 1

(***************************************************************************)
(* C5.  As claimed: for every ttl that can be passed to Set, zero          *)
(* included, a Get that returns found does so at an age of at most the     *)
(* ttl.                                                                    *)
(***************************************************************************)
C5_AsClaimed ==
    (ret.op = "Get" /\ ret.found) =>
        ret.at - EntryOf(ret.key).Timestamp <= EntryOf(ret.key).TTL

(***************************************************************************)
(* C5, amended.  For every positive ttl a Get that returns found does so   *)
(* at an age of at most the ttl; a ttl of zero does not bound the age: an  *)
(* entry set with it is found by every Get until it is evicted or cleared. *)
(***************************************************************************)
C5_FoundOnlyWithinPositiveTtl ==
    /\ [](  (ret.op = "Get" /\ ret.found /\ EntryOf(ret.key).TTL > 0) =>
               ret.at - EntryOf(ret.key).Timestamp <= EntryOf(ret.key).TTL)
    /\ [][\A k \in Keys :
            (items[k] # Nil /\ EntryOf(k).TTL <= 0 /\ GetCalled(k)) => ret'.found]_vars

\* A Get found an entry of ttl zero that is older than its ttl.
C5_Witness ==
    /\ ret.op = "Get" /\ ret.found
    /\ EntryOf(ret.key).TTL = 0
    /\ ret.at > EntryOf(ret.key).Timestamp

(***************************************************************************)
(* C6.  Set(k, v, ttl) on a stored key rewrites that entry's value,        *)
(* timestamp and ttl in place (its use count stays), moves it to the       *)
(* front, and changes nothing else: the same keys are stored, every other  *)
(* entry is as it was, the others keep their relative order, and the       *)
(* counters and the size gauge are untouched.                              *)
(***************************************************************************)
C6_SetExistingInPlace ==
    [][\A k \in Keys, v \in Values, ttl \in TTLs :
          (items[k] # Nil /\ SetCalled(k, v, ttl)) =>
              /\ Stored' = Stored
              /\ Len(evictList') = Len(evictList)
              /\ EntryOf(k)' = [EntryOf(k) EXCEPT !.Value = v,
                                                  !.Timestamp = now,
                                                  !.TTL = ttl]
              /\ KeyOrder' = <<k>> \o Without(KeyOrder, k)
              /\ \A j \in Stored \ {k} : EntryOf(j)' = EntryOf(j)
              /\ <<hits, misses, size>>' = <<hits, misses, size>>]_vars

\* A Set overwrote a stored entry that had been used, next to another entry.
C6_Witness ==
    /\ ret.op = "Set" /\ ret.found
    /\ Len(evictList) = 2
    /\ EntryOf(ret.key).UseCount > 0
    /\ EntryOf(ret.key).Timestamp > 0

(***************************************************************************)
(* C7.  As claimed: a sweep removes exactly the entries whose age exceeds  *)
(* their ttl.                                                              *)
(***************************************************************************)
C7_AsClaimed ==
    [][SweepRan => Stored' = {k \in Stored : ~TtlElapsed(k, now)}]_vars

(***************************************************************************)
(* C7, amended.  A sweep removes exactly the entries of positive ttl whose *)
(* age exceeds their ttl, which are exactly the entries a Get at that time *)
(* would not find; the entries that stay are unchanged and keep their      *)
(* order.                                                                  *)
(***************************************************************************)
C7_SweepAgreesWithGet ==
    [][SweepRan =>
         LET gone == {k \in Stored : EntryOf(k).TTL > 0 /\ TtlElapsed(k, now)} IN
         /\ Stored' = Stored \ gone
         /\ gone = {k \in Stored : ~GetOp(Cur, k, now).found}
         /\ KeyOrder' = SelectSeq(KeyOrder, LAMBDA j : j \notin gone)
         /\ \A j \in Stored' : EntryOf(j)' = EntryOf(j)]_vars

\* A sweep removed one entry and kept another.
C7_Witness ==
    /\ ret.op = "Sweep" /\ ret.removed = 1
    /\ Size = 1

(***************************************************************************)
(* Vocabulary of the pool's properties.                                    *)
(***************************************************************************)
\* The tasks whose function is executing.
Running == {t \in Tasks : pc[t] = "running"}

\* The tasks that hold a slot: their token is in the channel's buffer.
Holding == {t \in Tasks : pc[t] \in {"acquired", "running", "deferred"}}

\* The tasks whose Submit has called Add and whose Done has not been called.
Outstanding ==
    {t \in Tasks : pc[t] \in {"added", "acquired", "running", "deferred",
                              "released", "panicked"}}

\* The tasks whose goroutine has ended its function and called Done.
Completed == {t \in Tasks : pc[t] \in {"done", "unwinding"}}

(***************************************************************************)
(* C8.  At no instant are more than poolSize tasks running; a task starts  *)
(* only when fewer than poolSize tasks hold a slot, so a Submit made while *)
(* poolSize tasks run waits for a release; and every task that has ended,  *)
(* by returning or by panicking, gives its slot back: the tokens in the    *)
(* channel are exactly those of the tasks between their send and their     *)
(* deferred receive, and a task at its deferred receive is never blocked   *)
(* and does release.                                                       *)
(***************************************************************************)
C8_BoundedConcurrency ==
    /\ [](Cardinality(Running) <= poolSize)
    /\ [](workers = Cardinality(Holding) /\ workers <= poolSize)
    /\ [][\A t \in Tasks :
            (pc[t] = "added" /\ pc'[t] = "acquired") =>
                Cardinality(Holding) < poolSize]_vars
    /\ [](\A t \in Tasks : (pc[t] = "deferred" /\ ~crashed) => ENABLED Release(t))
    /\ \A t \in Tasks : (pc[t] = "deferred") ~> (pc[t] # "deferred" \/ crashed)

\* The pool is full, a Submit waits for a slot, and a task that panicked has
\* already given its slot back.
C8_Witness ==
    /\ Cardinality(Running) = poolSize
    /\ \E t \in Tasks : pc[t] = "added"
    /\ \E u \in panicking : pc[u] = "released"

(***************************************************************************)
(* C9.  When Wait has returned, every task whose Submit had begun when     *)
(* Wait was called has completed.  With poolSize >= 1 and every task       *)
(* function ending, unless a panic ends the process: every Submit that     *)
(* waits for a slot gets one and its task runs, and a waiting Wait         *)
(* returns.                                                                *)
(***************************************************************************)
C9_WaitDrains ==
    /\ [](waiter = "returned" => awaited \subseteq Completed)
    /\ \A t \in Tasks : (pc[t] = "added") ~> (pc[t] = "running" \/ crashed)
    /\ (waiter = "waiting") ~> (waiter = "returned" \/ crashed)

\* Wait was called with every task submitted, had to wait, and was woken by
\* the last Done.
C9_Witness ==
    /\ waiter = "woken"
    /\ awaited = Tasks
    /\ \A t \in Tasks : pc[t] = "done"

(***************************************************************************)
(* C10.  As claimed: a Submit called after Stop stays blocked at its send  *)
(* for ever: at every later moment its caller is at the send.              *)
(***************************************************************************)
C10_AsClaimed == \A t \in late : pc[t] = "added"

(***************************************************************************)
(* C10, amended.  A Submit called after Stop never starts its task, but it *)
(* is not blocked: its send on the closed channel can always proceed, and  *)
(* it panics, which ends the process.  The counter of the WaitGroup is at  *)
(* every moment the number of tasks submitted and not yet completed, and a *)
(* task that is executing after Stop still releases its slot and completes *)
(* unless a panic ends the process first.                                  *)
(***************************************************************************)
C10_SubmitAfterStopPanics ==
    /\ [](\A t \in late : pc[t] \in {"added", "panicked"})
    /\ [](\A t \in late : (pc[t] = "added" /\ ~crashed) => ENABLED SubmitSend(t))
    /\ [][\A t \in late :
            (pc[t] = "added" /\ pc'[t] # "added") =>
                (pc'[t] = "panicked" /\ crashed')]_vars
    /\ [](wg = Cardinality(Outstanding))
    /\ \A t \in Tasks :
          (closed /\ pc[t] \in {"running", "deferred", "released"})
              ~> (t \in Completed \/ crashed)

\* A Submit after Stop has panicked and ended the process while another task
\* was still executing.
C10_Witness ==
    /\ crashed
    /\ \E t \in late : pc[t] = "panicked"
    /\ \E u \in Tasks : pc[u] = "running"

(***************************************************************************)
(* Vocabulary of the queue's properties.                                   *)
(***************************************************************************)
\* The messages whose backend call is in flight.
InFlight == {m \in Msgs : hpc[m].at = "calling"}

\* The ids of the messages of a batch.
Ids(batch) == {batch.Messages[i].ID : i \in 1..Len(batch.Messages)}

(***************************************************************************)
(* C11.  As claimed: at any instant at most poolSize calls to the          *)
(* completion backend are in flight for one bot (poolSize is the capacity  *)
(* of the worker pool of the bot's queue), however many text messages      *)
(* arrive together.                                                        *)
(***************************************************************************)
C11_AsClaimed == Cardinality(InFlight) <= poolSize

\* The processor receives a message of type ty from the intake channel and
\* runs addToBatch on it.
AddToBatchCalled(ty) ==
    /\ proc.at = "select"
    /\ messages # <<>>
    /\ Head(messages).Type = ty
    /\ received' = Append(received, Head(messages))

\* The batches given to the pool since the latest tick.
SinceTick == SubSeq(submitted, tick.from + 1, Len(submitted))

\* The place of message m in the order of reception.
ReceivedAt(m) == CHOOSE i \in 1..Len(received) : received[i].ID = m

\* The open batch of type ty is being handed to the pool: the processor is
\* inside processBatch(ty) and holds the mutex until the batch is deleted.
BeingFlushed(ty) == proc.at = "Submit" /\ proc.msgType = ty

\* The places message m is in: the intake channel, an open batch that is not
\* being handed over, or a batch given to the pool.
Places(m) ==
    {<<"channel", i>> : i \in {j \in 1..Len(messages) : messages[j].ID = m}}
    \cup {<<"open", ty>> : ty \in {u \in DOMAIN batches :
                                     ~BeingFlushed(u) /\ m \in Ids(batches[u])}}
    \cup {<<"submitted", t>> : t \in {u \in DOMAIN submitted : m \in Ids(submitted[u])}}

\* Message m has been accepted by Enqueue.
Accepted(m) == hpc[m].at # "new"

\* Message m is in a batch given to the pool.
Submitted(m) == \E t \in DOMAIN submitted : m \in Ids(submitted[t])

(***************************************************************************)
(* C12.  As claimed: when addToBatch makes the open batch of a type reach  *)
(* batchSize messages, that batch is given to the pool inside the same     *)
(* call of addToBatch, and when that call returns the map holds no batch   *)
(* of the type.                                                            *)
(***************************************************************************)
C12_AsClaimed ==
    /\ [][\A ty \in MessageTypes :
            (AddToBatchCalled(ty) /\ Len(batches'[ty].Messages) >= batchSize) =>
                /\ proc'.at = "Submit" /\ proc'.msgType = ty
                /\ submitted' = Append(submitted, batches'[ty])]_vars
    /\ [][(proc.at = "Submit" /\ proc.caller = "addToBatch" /\ proc'.at = "select") =>
                proc.msgType \notin DOMAIN batches']_vars

(***************************************************************************)
(* C14.  As claimed: for every batchSize >= 1, no batch given to the pool  *)
(* holds more than batchSize messages and no open batch ever holds more    *)
(* than batchSize messages.                                                *)
(***************************************************************************)
C14_AsClaimed ==
    /\ \A t \in DOMAIN submitted : Len(submitted[t].Messages) <= batchSize
    /\ \A ty \in DOMAIN batches : Len(batches[ty].Messages) <= batchSize

(***************************************************************************)
(* C17.  As claimed: Enqueue never blocks its caller: in every reachable   *)
(* state the send of the next call of Enqueue can proceed.                 *)
(***************************************************************************)
C17_AsClaimed ==
    \A m \in Msgs :
        (hpc[m].at = "new" /\ \A k \in Msgs : k < m => hpc[k].at # "new") =>
            ENABLED EnqueueSend(m, "text")

(***************************************************************************)
(* C13.  A processBatches call started by the ticker gives to the pool     *)
(* exactly the batches that were open at the tick, whatever their size,    *)
(* each once, and returns with the map of open batches empty; it does      *)
(* return.  So a partial batch open at a tick is submitted once, and a     *)
(* tick at which no batch is open (no arrival since the last one) submits  *)
(* nothing.                                                                *)
(***************************************************************************)
C13_TickFlushesAll ==
    /\ [](proc.caller = "processBatches" =>
            /\ \A i \in 1..Len(SinceTick) :
                  /\ SinceTick[i].Type \in DOMAIN tick.open
                  /\ SinceTick[i] = tick.open[SinceTick[i].Type]
            /\ \A i, j \in 1..Len(SinceTick) :
                  SinceTick[i].Type = SinceTick[j].Type => i = j)
    /\ []((proc.at = "range" /\ proc.rest = {}) =>
            /\ batches = NoBatches
            /\ Len(SinceTick) = Cardinality(DOMAIN tick.open))
    /\ [][(proc.at = "range" /\ proc'.at = "select") =>
            (proc.rest = {} /\ batches' = NoBatches /\ submitted' = submitted)]_vars
    /\ (proc.caller = "processBatches") ~> (proc.at = "select")

\* A processBatches call is about to return after it submitted two batches
\* that were open at its tick, one of them partial.
C13_Witness ==
    /\ proc.at = "range" /\ proc.rest = {}
    /\ Len(SinceTick) = 2
    /\ \E ty \in DOMAIN tick.open : Len(tick.open[ty].Messages) < batchSize

(***************************************************************************)
(* C15.  Every message accepted by Enqueue is at every moment in exactly   *)
(* one place: the intake channel, one open batch, or one batch given to    *)
(* the pool (a batch counts as given to the pool from the moment           *)
(* processBatch hands it over; it leaves the map before the mutex is       *)
(* released); a message not yet accepted is nowhere.  Between the hand-off *)
(* of a batch and its removal from the map the processor receives no       *)
(* message and hands over no other batch, and the removal takes exactly    *)
(* that batch.  With the ticker firing and the tasks of the pool ending,   *)
(* every accepted message is eventually in a batch given to the pool:      *)
(* being accepted and being given to the pool are permanent, so this is    *)
(* stated as "again and again, all messages accepted so far have been      *)
(* given to the pool".                                                     *)
(***************************************************************************)
C15_ExactlyOnce ==
    /\ [](\A m \in Msgs : Cardinality(Places(m)) = IF Accepted(m) THEN 1 ELSE 0)
    /\ [][proc.at = "Submit" =>
            /\ received' = received
            /\ submitted' = submitted
            /\ proc'.at = "Submit" => batches' = batches
            /\ proc'.at # "Submit" =>
                  /\ DOMAIN batches' = DOMAIN batches \ {proc.msgType}
                  /\ \A ty \in DOMAIN batches' : batches'[ty] = batches[ty]]_vars
    /\ []<>(\A m \in Msgs : Accepted(m) => Submitted(m))

\* The processor waits inside Submit for a slot of the full pool, its batch
\* handed over and not yet deleted, while another message waits in the channel.
C15_Witness ==
    /\ proc.at = "Submit"
    /\ Len(submitted) \in Tasks /\ pc[Len(submitted)] = "added"
    /\ workers = poolSize
    /\ messages # <<>>

\* The messages of a batch are of its type and stand in the order of reception.
InOrder(batch) ==
    /\ \A i \in 1..Len(batch.Messages) :
          /\ batch.Messages[i].Type = batch.Type
          /\ \E k \in 1..Len(received) : received[k] = batch.Messages[i]
    /\ \A i, j \in 1..Len(batch.Messages) :
          i < j => ReceivedAt(batch.Messages[i].ID) < ReceivedAt(batch.Messages[j].ID)

(***************************************************************************)
(* C16.  In every batch, open or given to the pool, the messages are of    *)
(* the batch's type and stand in the order in which the processor received *)
(* them from the intake channel; an open batch changes only by a message   *)
(* appended at its end.                                                    *)
(***************************************************************************)
C16_OrderKept ==
    /\ [](\A t \in DOMAIN submitted : InOrder(submitted[t]))
    /\ [](\A ty \in DOMAIN batches : batches[ty].Type = ty /\ InOrder(batches[ty]))
    /\ [][\A ty \in DOMAIN batches \cap DOMAIN batches' :
            \/ batches'[ty].Messages = batches[ty].Messages
            \/ /\ received' # received
               /\ batches'[ty].Messages =
                     Append(batches[ty].Messages, received'[Len(received')])]_vars

\* A batch of two messages was given to the pool, and a message of another
\* type was received between the two.
C16_Witness ==
    \E t \in DOMAIN submitted :
        /\ Len(submitted[t].Messages) = 2
        /\ ReceivedAt(submitted[t].Messages[2].ID)
              = ReceivedAt(submitted[t].Messages[1].ID) + 2


(***************************************************************************)
(* Vocabulary of the timeout manager's and the retry loop's properties.    *)
(***************************************************************************)
Clamp(x, lo, hi) == IF x < lo THEN lo ELSE IF x > hi THEN hi ELSE x

\* The goroutines inside updateResponseTime's critical section.
Updating == {g \in Goroutines : upc[g].at # "idle"}

\* Goroutine g assigns the average in this step.
Writes(g) == upc[g].at = "read" /\ upc'[g].at = "idle"

\* The timeouts of handler h's attempts, in order.
AttemptTimeouts(h) ==
    [i \in 1..((Len(rl[h].log) + 1) \div 2) |-> rl[h].log[2 * i - 1].timeout]

(***************************************************************************)
(* C18: getOptimalTimeout returns INITIAL_TIMEOUT while no latency sample  *)
(* has been recorded, and otherwise twice the current smoothed latency     *)
(* clamped to the interval from MIN_TIMEOUT to MAX_TIMEOUT.                *)
(***************************************************************************)
C18_AsClaimed ==
    got.called =>
        got.timeout = IF got.sampled
                      THEN Clamp(2 * got.avg, MIN_TIMEOUT, MAX_TIMEOUT)
                      ELSE INITIAL_TIMEOUT

(***************************************************************************)
(* C19, as claimed: updateResponseTime sets the smoothed latency to the    *)
(* sample on the first sample and afterwards to 0.7*old + 0.3*sample       *)
(* truncated to whole units, and concurrent updates are serialized by the  *)
(* manager's lock, so that no update is lost.                              *)
(***************************************************************************)
C19_AsClaimed ==
    [][\A g \in Goroutines :
          Writes(g) =>
              /\ upc[g].avg = averageResponseTime
              /\ averageResponseTime' =
                     IF recorded = 0 THEN upc[g].duration
                     ELSE Weighted(averageResponseTime, upc[g].duration)]_vars

(***************************************************************************)
(* C19, amended: updateResponseTime sets the smoothed latency to the       *)
(* sample on the first sample and afterwards to 0.7*old + 0.3*sample       *)
(* truncated to whole units, or to one unit less than that where           *)
(* 0.7*old + 0.3*sample is itself a whole number; at most one goroutine is *)
(* inside the update at a time and each update is applied to the average   *)
(* the update before it left, so that no update is lost.                   *)
(***************************************************************************)
C19_SmoothedWithinOneUnit ==
    /\ [](Cardinality(Updating) <= 1)
    /\ [](\A g \in Updating : tmMutex = g)
    /\ [][\A g \in Goroutines :
            Writes(g) =>
                LET old == averageResponseTime
                    d == upc[g].duration
                    new == averageResponseTime'
                IN  /\ upc[g].avg = old
                    /\ recorded' = recorded + 1
                    /\ recorded = 0 => new = d
                    /\ recorded > 0 =>
                          /\ 10 * new <= 7 * old + 3 * d
                          /\ 7 * old + 3 * d <= 10 * new + 10]_vars

\* A goroutine holds the lock after an earlier update, has read the average
\* that update left and is about to write a value float64 rounds below.
C19_Witness ==
    /\ recorded >= 1
    /\ \E g \in Goroutines :
          /\ upc[g].at = "read"
          /\ tmMutex = g
          /\ upc[g].avg = averageResponseTime
          /\ <<upc[g].avg, upc[g].duration>> \in RoundsBelow

(***************************************************************************)
(* C20: for one text message the retry loop makes at most MAX_RETRIES + 1  *)
(* backend attempts; the first uses the timeout getOptimalTimeout          *)
(* returned, each retry 1.5 times the timeout before it (in whole units)   *)
(* or MAX_TIMEOUT if that is less, so the timeouts never decrease and      *)
(* never exceed MAX_TIMEOUT; one notice of the longer timeout is sent      *)
(* before each retry and none before the first attempt.                    *)
(***************************************************************************)
C20_RetryLoop ==
    /\ [](\A h \in Handlers :
            LET log == rl[h].log
                ts == AttemptTimeouts(h)
            IN  /\ Len(ts) <= MAX_RETRIES + 1
                /\ rl[h].at # "new" => Len(log) = 2 * rl[h].retries + 1
                /\ \A i \in 1..Len(log) :
                       log[i].kind = IF i % 2 = 1 THEN "attempt" ELSE "notice"
                /\ \A i \in 1..Len(ts) : ts[i] <= MAX_TIMEOUT
                /\ \A i \in 2..Len(ts) :
                       /\ ts[i - 1] <= ts[i]
                       /\ 2 * ts[i] <= 3 * ts[i - 1]
                       /\ ts[i] = MAX_TIMEOUT \/ 3 * ts[i - 1] < 2 * ts[i] + 2
                       /\ log[2 * i - 2].timeout = ts[i])
    /\ [][\A h \in Handlers :
            rl[h].at = "new" /\ rl'[h].at # "new" =>
                /\ got'.called
                /\ AttemptTimeouts(h)' = <<got'.timeout>>]_vars

\* A handler has made its third attempt, its second retry capped at
\* MAX_TIMEOUT, with the two notices sent.
C20_Witness ==
    \E h \in Handlers :
        /\ Len(rl[h].log) = 2 * MAX_RETRIES + 1
        /\ rl[h].log[5].timeout = MAX_TIMEOUT
        /\ EscalateUncapped(rl[h].log[3].timeout) > MAX_TIMEOUT
        /\ rl[h].log[1].timeout < rl[h].log[3].timeout
        /\ rl[h].log[3].timeout < MAX_TIMEOUT

(***************************************************************************)
(* The text handler's failures.                                            *)
(***************************************************************************)
\* Handler h gives up in this step: the terminal failure notice is sent.
GivesUp(h) == rl[h].at = "request" /\ rl'[h].at = "failed"

\* C21: an attempt that fails with a network error or with an empty list of
\* choices is retried while retries remain: the handler gives up, and sends
\* the terminal failure notice, only after MAX_RETRIES retries.
C21_AsClaimed ==
    [][\A h \in Handlers : GivesUp(h) => rl[h].retries = MAX_RETRIES]_vars

(***************************************************************************)
(* The rate limiter.                                                       *)
(***************************************************************************)
\* The messages delivered so far, and those the rate limiter admitted.
Delivered == {m \in Arrivals : th[m].at # "new"}

Admitted == {m \in Delivered : th[m].at # "limited"}

\* The admitted messages of m's sender delivered before m.
AdmittedBefore(m) == {k \in Admitted : k < m /\ th[k].sender = th[m].sender}

\* Message m is refused in this step.
Refused(m) == th[m].at = "new" /\ th'[m].at = "limited"

\* C24: with rate 0.5/s and burst 1, a sender's first Allow returns true, an
\* Allow less than 2 seconds after the sender's last admitted call returns
\* false and one at least 2 seconds after it returns true; a call that
\* returns false takes no token: it leaves the limiters as they were.
C24_TwoSecondsApart ==
    /\ [](\A m \in Delivered :
            m \in Admitted <=>
                \A k \in AdmittedBefore(m) : th[m].arrived - th[k].arrived >= 2 * Second)
    /\ [][\A m \in Arrivals : Refused(m) => visitors' = visitors]_vars

\* A sender is admitted, refused a second later and admitted again a second
\* after that.
C24_Witness ==
    \E a, b, c \in Arrivals :
        /\ a < b /\ b < c
        /\ th[a].sender = th[b].sender /\ th[b].sender = th[c].sender
        /\ th[a].at = "started" /\ th[b].at = "limited" /\ th[c].at = "started"
        /\ th[b].arrived = th[a].arrived + Second
        /\ th[c].arrived = th[a].arrived + 2 * Second

\* The rate limiter's notice has been sent for message m.
Noticed(m) == th[m].sent # <<>> /\ th[m].sent[1] = RateLimitNotice

\* The messages on the queue's channel, the places of the histories, and
\* those of the entries appended for message m.
Enqueued == {messages[i].ID : i \in 1..Len(messages)}

HistoryPlaces ==
    UNION {{c} \X DOMAIN conversations[c].Messages : c \in DOMAIN conversations}

Entries(m) == {x \in HistoryPlaces : conversations[x[1]].Messages[x[2]].Turn = m}

\* C25: when the rate limiter refuses a message the handler sends the one
\* notice and returns: the step creates and changes no conversation, puts
\* nothing on the queue, neither reads nor writes the response cache and
\* starts no request, and nothing is done for the message afterwards.
C25_RefusalOnlyNotifies ==
    /\ [](\A m \in Arrivals :
            Noticed(m) =>
                /\ th[m].at = "limited"
                /\ th[m].sent = <<RateLimitNotice>>
                /\ th[m].retries = 0
                /\ reqs[m] = <<>>
                /\ m \notin Enqueued
                /\ Entries(m) = {})
    /\ [][\A m \in Arrivals :
            ~Noticed(m) /\ Noticed(m)' =>
                /\ UNCHANGED <<conversations, responseCache, reqs>>
                /\ UNCHANGED <<cacheVars, queueVars, timeoutVars>>]_vars

\* A sender's second message is refused while the first is being answered,
\* and the first is answered afterwards.
C25_Witness ==
    \E m, k \in Arrivals :
        /\ th[m].at = "limited"
        /\ th[k].sender = th[m].sender
        /\ th[k].at = "done"
        /\ th[k].sent[Len(th[k].sent)].kind = "reply"
        /\ th[m].prompt = th[k].prompt

(***************************************************************************)
(* The text handler's outcomes.                                            *)
(***************************************************************************)
\* What handler m has sent of one kind, in order.
SentOf(m, kind) == SelectSeq(th[m].sent, LAMBDA x : x.kind = kind)

\* The entries of one role appended for message m.
EntriesOf(m, role) ==
    {x \in Entries(m) : conversations[x[1]].Messages[x[2]].Role = role}

\* The response the cache holds for prompt p (Nil: none).
Cached(p) == IF items[p] = Nil THEN Nil ELSE elems[items[p]].Value

\* Handler m gives up in this step.
Aborts(m) == th[m].at = "request" /\ th'[m].at = "failed"

\* C22: a request that ends in failure sends exactly one failure notice, as
\* the last thing the handler sends, and no reply; the response cache gets
\* no entry from it (the cache is written only by a handler that obtained a
\* response, for its own prompt), no assistant entry is appended for it, and
\* the step leaves the conversations and the other messages' handlers and
\* requests as they were.
C22_FailureAborts ==
    /\ [](\A m \in Arrivals :
            th[m].at = "failed" =>
                /\ Len(SentOf(m, "failure")) = 1
                /\ th[m].sent[Len(th[m].sent)].kind = "failure"
                /\ SentOf(m, "reply") = <<>>
                /\ SentOf(m, "cached") = <<>>
                /\ EntriesOf(m, "assistant") = {})
    /\ [][\A m \in Arrivals :
            Aborts(m) =>
                /\ UNCHANGED <<conversations, responseCache, cacheVars>>
                /\ \A k \in Arrivals \ {m} : th'[k] = th[k] /\ reqs'[k] = reqs[k]]_vars
    /\ [][\A p \in Prompts :
            Cached(p)' # Nil /\ Cached(p)' # Cached(p) =>
                \E k \in Arrivals :
                    /\ th[k].at = "request" /\ th'[k].at = "done"
                    /\ th[k].prompt = p
                    /\ th'[k].sent = Append(th[k].sent, Sent("reply", Cached(p)'))]_vars

\* A message has failed after its last retry and nothing is cached for its
\* text, and another chat's message has been answered.
C22_Witness ==
    \E m, k \in Arrivals :
        /\ th[m].at = "failed"
        /\ th[m].retries = MAX_RETRIES
        /\ Cached(th[m].prompt) = Nil
        /\ th[k].at = "done"
        /\ th[k].sender # th[m].sender
        /\ Cached(th[k].prompt) # Nil

\* The attempts made so far, and the deadlines of the backend calls in
\* flight: those of the requests makeAIRequest has sent and those of the
\* summarizations.
Started == {x \in Arrivals \X Attempts : x[2] <= Len(reqs[x[1]])}

Deadlines ==
    {reqs[x[1]][x[2]].timeout : x \in {y \in Started : reqs[y[1]][y[2]].at = "call"}}
        \cup {SummaryDeadline : x \in {y \in Started : reqs[y[1]][y[2]].summ = "call"}}

\* C23: every call to the backend, the summarization call included, runs
\* under a deadline of at most MAX_TIMEOUT.
C23_AsClaimed == \A d \in Deadlines : d <= MAX_TIMEOUT

(***************************************************************************)
(* The response cache of the bot.                                          *)
(***************************************************************************)
\* The handlers that obtained a response for prompt p and cached it.
Answered(p) ==
    {k \in Arrivals : th[k].at = "done" /\ th[k].prompt = p /\ SentOf(k, "reply") # <<>>}

\* Handler m asks the cache in this step.
Asks(m) == th[m].at = "started" /\ th'[m].at # "started"

\* C26: once a response has been cached for a prompt, an admitted message
\* with the same prompt within the 24 hours is answered from the cache and
\* causes no backend call, whatever happened in between.
C26_AsClaimed ==
    [][\A m \in Arrivals :
         Asks(m) /\ Answered(th[m].prompt) # {} =>
             /\ th'[m].at = "done"
             /\ SentOf(m, "cached")' # <<>>
             /\ reqs'[m] = <<>>]_vars

(***************************************************************************)
(* The histories.                                                          *)
(***************************************************************************)
\* The turns that have completed: answered, or ended with the failure notice.
Ended == {m \in Arrivals : th[m].at \in {"done", "failed"}}

\* The history of message m's chat.
History(m) == conversations[th[m].sender].Messages

\* C27: once a text turn has completed, its chat's history has at most
\* MAX_HISTORY entries.
C27_AsClaimed == \A m \in Ended : Len(History(m)) <= MAX_HISTORY

\* C28: a text turn appends exactly one user entry, whatever the number of
\* attempts, and one assistant entry exactly if it obtained a response.
C28_AsClaimed ==
    \A m \in Ended :
        /\ Cardinality(EntriesOf(m, "user")) = 1
        /\ Cardinality(EntriesOf(m, "assistant")) =
               IF th[m].at = "done" THEN 1 ELSE 0

\* The summarization started by attempt x[2] of message x[1] gets its
\* summary, or fails, in this step.
Summarized(x) ==
    reqs[x[1]][x[2]].summ = "call" /\ reqs'[x[1]][x[2]].summ = "done"

SummaryFailed(x) ==
    reqs[x[1]][x[2]].summ = "call" /\ reqs'[x[1]][x[2]].summ = "failed"

\* C29: when a summarization succeeds, the chat's Summary becomes the text
\* returned and its Messages the last two entries of the history as it is
\* at that moment (there are two); the other chats are left alone, and no
\* conversation is ever deleted.
C29_SummaryKeepsLastTwo ==
    /\ [][\A x \in Started :
            Summarized(x) =>
                LET c == th[x[1]].sender
                    old == conversations[c].Messages
                IN  /\ Len(old) >= 2
                    /\ conversations'[c].Summary = reqs'[x[1]][x[2]].summary
                    /\ conversations'[c].Summary \in Values
                    /\ conversations'[c].Messages = <<old[Len(old) - 1], old[Len(old)]>>
                    /\ conversations'[c].LastActive = conversations[c].LastActive
                    /\ \A d \in DOMAIN conversations \ {c} :
                           conversations'[d] = conversations[d]]_vars
    /\ [][DOMAIN conversations \subseteq DOMAIN conversations']_vars

\* A summarization has succeeded after the user entry of the message was
\* appended a second time: the two entries kept are those of the message.
C29_Witness ==
    \E x \in Started :
        /\ reqs[x[1]][x[2]].summ = "done"
        /\ conversations[th[x[1]].sender].Summary = reqs[x[1]][x[2]].summary
        /\ Len(History(x[1])) = 2
        /\ History(x[1])[1].Turn = 1
        /\ History(x[1])[2].Turn = 1
        /\ History(x[1])[2].Role = "user"

C37_MapAndListAgree ==
    /\ \A k \in Stored :
          /\ Cardinality({i \in 1..Len(evictList) : evictList[i] = items[k]}) = 1
          /\ EntryOf(k).Key = k
    /\ \A i \in 1..Len(evictList) :
          /\ elems[evictList[i]].Key \in Keys
          /\ items[elems[evictList[i]].Key] = evictList[i]
    /\ \A i, j \in 1..Len(evictList) :
          (evictList[i] = evictList[j] \/ KeyOrder[i] = KeyOrder[j]) => i = j
    /\ Size = Cardinality(Stored)

\* The sweep has removed an expired entry and left another one stored.
C37_Witness ==
    /\ ret.op = "Sweep" /\ ret.removed > 0
    /\ Size > 0

(***************************************************************************)
(* C38.  As claimed: hits + misses is the number of Get calls and hits the *)
(* number of Get calls that found their key, that is, a call of Get adds   *)
(* one to hits + misses (to hits if and only if it returns found) and no   *)
(* other step changes either counter.                                      *)
(***************************************************************************)
C38_AsClaimed ==
    [][ IF \E k \in Keys : GetCalled(k)
        THEN /\ hits' + misses' = hits + misses + 1
             /\ hits' = hits + (IF ret'.found THEN 1 ELSE 0)
        ELSE /\ hits' = hits
             /\ misses' = misses ]_vars

(***************************************************************************)
(* C39.  As claimed: the queue-length gauge is never negative, and in      *)
(* every state where no call of Enqueue and no task of a batch is in       *)
(* progress it is the number of messages that were enqueued and have not   *)
(* been processed by a batch task.                                         *)
(***************************************************************************)
\* A call of Enqueue stands between its send and its queueLength.Inc().
EnqueueInProgress == \E m \in Msgs : hpc[m].at = "sent"

\* The closure of a batch is running.
BatchTaskInProgress == \E t \in Tasks : t \in DOMAIN submitted /\ pc[t] = "running"

\* Message m was counted down by the task of its batch.
Processed(m) ==
    \E t \in Tasks :
        /\ t \in DOMAIN submitted
        /\ m \in Ids(submitted[t])
        /\ pc[t] \in {"deferred", "released", "done"}

Waiting == {m \in Msgs : Accepted(m) /\ ~Processed(m)}

GaugeAtRest ==
    (~EnqueueInProgress /\ ~BatchTaskInProgress) => queueLength = Cardinality(Waiting)

C39_AsClaimed ==
    /\ queueLength >= 0
    /\ GaugeAtRest

(***************************************************************************)
(* Vocabulary of the account manager's properties.                         *)
(***************************************************************************)
\* The objects that hold the state of bot a the manager's users rely on: its
\* conversations, its cache and its map of latest responses, its timeout
\* manager and its rate limiter.
StateOf(a) ==
    {instances[a].conversations, instances[a].cache, instances[a].responseCache,
     instances[a].timeouts, instances[a].rateLimiter}

\* This step is the handling of a message on bot a.
HandledOn(a) ==
    \/ \E s \in Senders, p \in Prompts, sendOk \in BOOLEAN : BotArrive(a, s, p, sendOk)
    \/ \E out \in Outcomes : BotAttempt(a, out)

\* Bot a has answered a message: it has a history, a cached response and a
\* latency.
HasAnswered(a) ==
    /\ heap[instances[a].responseCache] # NoResponses
    /\ heap[instances[a].timeouts] > 0
    /\ \E k \in Keys : heap[instances[a].cache].items[k] # Nil

(***************************************************************************)
(* C31.  Two bots made by the account manager are isolated: they share no  *)
(* object among their conversations, caches, timeout managers and rate     *)
(* limiters, and a step that handles a message on one bot leaves every     *)
(* such object of every other bot as it was.                               *)
(***************************************************************************)
C31_BotsIsolated ==
    /\ [](\A a, b \in DOMAIN instances : a # b => StateOf(a) \cap StateOf(b) = {})
    /\ [][\A a \in DOMAIN instances :
            (instances' = instances /\ bots' = bots /\ heap' # heap /\ HandledOn(a)) =>
                \A b \in DOMAIN instances \ {a} :
                    \A o \in StateOf(b) : heap'[o] = heap[o]]_vars

\* Two bots have each answered a message of the same sender.
C31_Witness ==
    \E a, b \in DOMAIN instances :
        /\ a # b
        /\ HasAnswered(a) /\ HasAnswered(b)
        /\ DOMAIN heap[instances[a].rateLimiter] = DOMAIN heap[instances[b].rateLimiter]

(***************************************************************************)
(* C32.  As claimed: every bot that was made and not removed is registered *)
(* under its own ID; a step that makes a bot (CreateNewBot, LoadBots)      *)
(* leaves every registered bot under its ID, so the new ID was not in use; *)
(* and RemoveBot of an ID that is not registered returns an error and      *)
(* leaves the manager's data unchanged.                                    *)
(***************************************************************************)
C32_AsClaimed ==
    /\ [](\A a \in DOMAIN instances :
            ~heap[instances[a].client].removed =>
                /\ instances[a].botID \in DOMAIN bots
                /\ bots[instances[a].botID] = a)
    /\ [][Len(instances') > Len(instances) =>
            \A n \in DOMAIN bots : n \in DOMAIN bots' /\ bots'[n] = bots[n]]_vars
    /\ [](\A n \in BotIds \ DOMAIN bots :
            /\ RemoveBotOp(Manager, n).err
            /\ RemoveBotOp(Manager, n).am = Manager)

(***************************************************************************)
(* The bot of src/whatsapp/bot.go: what its goroutines hold and wait for.  *)
(***************************************************************************)
BatchGoroutines ==
    {Handler(b) : b \in Batches} \cup {Batch(b) : b \in Batches}
        \cup {Request(b, a) : b \in Batches, a \in Attempts}

\* The goroutine of the attempt processBatch b is waiting for has not yet
\* got b.mutex.
RequestAtLock(b) == pb[b].at = "select" /\ gor[b][Len(gor[b])].at = "lock"

\* C35: no goroutine holds two of the pipeline's locks at once, and none
\* waits for a backend call while holding a lock the goroutine making that
\* call needs.  Violated: processBatch keeps b.mutex (deferred Unlock) while
\* getOptimalTimeout read-locks tm.mutex, and while makeAIRequest waits for
\* the goroutine that begins with b.mutex.Lock().
C35_AsClaimed ==
    /\ \A g \in BatchGoroutines : Cardinality(Holds(g)) <= 1
    /\ \A b \in Batches : RequestAtLock(b) => Batch(b) \notin locks["mutex"]

\* C40: in the processBatch variant no attempt runs into its deadline while
\* its request goroutine is still waiting for the conversation lock that
\* processBatch holds.  Violated: processBatch holds b.mutex until it
\* returns, so the goroutine of the attempt it waits for never gets past
\* b.mutex.Lock() and every attempt ends at its deadline.
C40_AsClaimed ==
    [][\A b \in Batches :
            ProcessBatchSelect(b, "deadline") =>
                ~(RequestAtLock(b) /\ Batch(b) \in locks["mutex"])]_vars

\* Some entry of chat c's history is gone after this step: the history is
\* not the old one with entries added at its end.
EntryRemoved(c) ==
    LET old == conversations[c].Messages
        new == conversations'[c].Messages
    IN  ~(Len(new) >= Len(old) /\ SubSeq(new, 1, Len(old)) = old)

\* C33: an entry leaves a chat's history only in the step of a
\* summarization of that chat whose summary is stored.  Violated: the
\* request goroutine cuts the history to its last MAX_HISTORY entries before
\* it appends the user entry, and what it cuts off is in no summary.
C33_AsClaimed ==
    [][\A c \in DOMAIN conversations :
            EntryRemoved(c) =>
                \E x \in Started : th[x[1]].sender = c /\ Summarized(x)]_vars

\* What only a received response changes: the response caches, the
\* histories, and what the handlers have sent.
ReplyPath == <<items, elems, evictList, responseCache, conversations, th>>

\* Attempt x[2] of message x[1] is abandoned: it was started and
\* makeAIRequest is no longer waiting for it.
Abandoned(x) == ~Awaited(x[1], x[2])

\* The goroutine of attempt x has a step it can take.
CanGoOn(x) ==
    \/ ENABLED RequestAppend(x[1], x[2])
    \/ ENABLED RequestCheck(x[1], x[2])
    \/ \E out \in Outcomes : ENABLED RequestDo(x[1], x[2], out)

\* C36: every makeAIRequest gives its caller one outcome and its goroutine
\* always terminates.  (1) A goroutine that has not sent has a step it can
\* take, awaited or not: its send never waits.  (2) An awaited attempt ends
\* by the receipt of what its goroutine sent or by the deadline, and a
\* handler that goes on to reply received a response.  (3) An attempt once
\* abandoned is never waited for again.  (4) The step in which an abandoned
\* goroutine sends changes no cache, no history and nothing a handler has
\* sent, and the deadline step sends no reply either.
C36_OneOutcomeLateDiscarded ==
    /\ [](\A x \in Started : reqs[x[1]][x[2]].at \in {"lock", "check", "call"} => CanGoOn(x))
    /\ [][\A x \in Started :
            (Awaited(x[1], x[2]) /\ ~Awaited(x[1], x[2])') =>
                LET r == reqs[x[1]][x[2]]
                    after == reqs'[x[1]][x[2]]
                IN  /\ \/ after.at = "received" /\ r.at = "sent"
                       \/ after.at = r.at /\ r.at \in {"call", "sent"}
                    /\ th'[x[1]].at = "done" =>
                           /\ after.at = "received" /\ r.ok
                           /\ th'[x[1]].sent = Append(th[x[1]].sent, Sent("reply", r.response))
                    /\ after.at # "received" =>
                           <<items, elems, evictList, responseCache, conversations>>' =
                               <<items, elems, evictList, responseCache, conversations>>]_vars
    /\ [][\A x \in Started : Abandoned(x) => Abandoned(x)']_vars
    /\ [][\A x \in Started :
            (Abandoned(x) /\ reqs'[x[1]][x[2]] # reqs[x[1]][x[2]]) =>
                /\ ReplyPath' = ReplyPath
                /\ reqs'[x[1]][x[2]].response = Nil]_vars

\* Witness: the first attempt of a message was abandoned at its deadline
\* and its goroutine has sent all the same, while the handler waits for the
\* second attempt.
C36_Witness ==
    \E m \in Arrivals :
        /\ th[m].at = "request"
        /\ Current(m) = 2
        /\ reqs[m][1].at = "sent"
        /\ reqs[m][2].at = "call"

\* C34: of two messages of one chat the earlier one's user entries precede
\* the later one's, and so do its assistant entries.  Violated: the entries
\* are appended by the handlers' goroutines when they come to it, the
\* assistant entry when the backend has answered.
C34_AsClaimed ==
    \A m1, m2 \in Arrivals :
        (m1 < m2 /\ th[m1].sender = th[m2].sender /\ th[m1].sender # Nil) =>
            \A role \in {"user", "assistant"} :
                \A x \in EntriesOf(m1, role), y \in EntriesOf(m2, role) : x[2] < y[2]

====
